---- MODULE Spec2Model ----
(***************************************************************************)
(* Tool dispatch and subprocess orchestration of annomics-mcp:             *)
(*   server.py         handle_call_tool, handle_annotate_genomic_regions   *)
(*   r_interface.py    RScriptRunner.run_annotation and its helpers        *)
(*   simple_server.py  SimpleMCPServer.handle_request, _annotate_regions   *)
(*                                                                         *)
(* Python strings are modelled as sequences of atoms (an atom is a piece   *)
(* of text that is never split), so that f-strings are concatenations and  *)
(* "x in s" is a search for a contiguous run of atoms.  Bytes captured     *)
(* from the process are sequences of integers and become text only through *)
(* Decode.  The response texts keep their wording and their line breaks;   *)
(* the emoji that open a text (with the blank after them), the bullet      *)
(* character of the simple server's genome list and the backticks are left *)
(* out of the atoms.  What the read-only tools find on disk is an input of *)
(* their handlers: the file at file_path (its lines, from which the        *)
(* preview is computed as pandas reads and prints them), the results       *)
(* directory, and what pandas prints of a summary file.                    *)
(*                                                                         *)
(* One request is in flight at a time.  pc is "idle", "waiting" (the       *)
(* process was launched and the handler awaits it) or "done" (the call has *)
(* returned or raised: resp).  proc is the process of the request: "none", *)
(* "running" or "exited"; it exits by a step of its own, after which the   *)
(* suspended call is resumed by the return of communicate() or by its      *)
(* timeout.  env records what the environment did to the process, runres   *)
(* what run_annotation returned or raised, handled what the tool handler   *)
(* returned or raised before handle_call_tool's except.  startup records   *)
(* what main() of server.py met when it built the runner.                  *)
(*                                                                         *)
(* server is what SimpleMCPServer() gave: the object with the script path  *)
(* it found, or the exception it raised; tools is self.tools, the          *)
(* registered descriptors in insertion order.  LoopSpec is                 *)
(* run_stdio_server from its call: loop is "off" before the loop is        *)
(* entered, then "awaiting", "processing" or "closed", consumed the lines  *)
(* read so far and written the response lines printed so far.  UnitSpec    *)
(* calls the helpers of RScriptRunner and two handlers directly; unit is   *)
(* the call, pending while it awaits its process, and its result.          *)
(* RegistrySpec constructs a server and registers tools itself.  ConcSpec  *)
(* runs several calls of handle_call_tool as concurrent tasks: jobs maps a *)
(* task to the locals of its call (its own pc, job, proc, env, runres and  *)
(* resp).                                                                  *)
(***************************************************************************)
EXTENDS Integers, Sequences, FiniteSets, TLC

VARIABLES r_runner, pc, req, job, proc, cmd, launches, env, runres, handled, resp,
          startup, loop, consumed, written, unit, tools, server, jobs

vars == <<r_runner, pc, req, job, proc, cmd, launches, env, runres, handled, resp,
          startup, loop, consumed, written, unit, tools, server, jobs>>

\* the state of the stdio loop of simple_server.py
loopvars == <<loop, consumed, written>>

----------------------------------------------------------------------------
(* Bounds of the model *)

\* captured streams hold at most this many bytes
MaxStreamLen == 1

\* the process exits with a status in 0..MaxReturnCode
MaxReturnCode == 1

\* explicit timeouts range over 0..MaxTimeout
MaxTimeout == 1

----------------------------------------------------------------------------
(* Strings *)

S(a) == <<a>>

\* Python: sub in s
Contains(s, sub) ==
    \E i \in 0..(Len(s) - Len(sub)) : SubSeq(s, i + 1, i + Len(sub)) = sub

\* Python: sep.join(list)
RECURSIVE Join(_, _)
Join(list, sep) ==
    IF Len(list) = 0 THEN <<>>
    ELSE IF Len(list) = 1 THEN list[1]
    ELSE list[1] \o sep \o Join(Tail(list), sep)

\* Python: str(n) for an integer n
IntStr(n) == S(ToString(n))

\* Python values whose type the code inspects
PNone == [t |-> "none"]
PStr(s) == [t |-> "str", v |-> s]
PList(l) == [t |-> "list", v |-> l]

\* Python truthiness of an Optional[str]
Truthy(x) == x.t = "str" /\ x.v # <<>>

\* dict.get(key, default)
Get(d, key, default) == IF key \in DOMAIN d THEN d[key] ELSE default

\* Exceptions
Exc(type, msg) == [type |-> type, msg |-> msg]

\* str(KeyError(key)) is the repr of the key
KeyError(key) == Exc("KeyError", <<"'">> \o key \o <<"'">>)

\* outcomes of a function: a returned value or a raised exception
Returned(v) == [k |-> "return", v |-> v]
Raised(e) == [k |-> "raise", exc |-> e]

----------------------------------------------------------------------------
(* schemas/genome_builds.py *)

\* a GenomeBuild; every build of the registry has the annotations cpg, genic
GenomeBuild(name, description, chromosome_style, species, assembly) ==
    [name |-> S(name), description |-> S(description),
     annotations |-> << S("cpg"), S("genic") >>,
     chromosome_style |-> S(chromosome_style),
     species |-> S(species), assembly |-> S(assembly)]

\* SupportedGenomes.GENOMES: the values of the dict in insertion order (each
\* is stored under its name)
GENOMES ==
    <<
       GenomeBuild("hg19", "Human (GRCh37)", "chr1", "Homo sapiens", "GRCh37"),
       GenomeBuild("hg38", "Human (GRCh38)", "chr1", "Homo sapiens", "GRCh38"),
       GenomeBuild("mm9", "Mouse (NCBI37)", "chr1", "Mus musculus", "NCBI37"),
       GenomeBuild("mm10", "Mouse (GRCh38)", "chr1", "Mus musculus", "GRCm38"),
       GenomeBuild("dm3", "Drosophila (BDGP Release 5)", "chr2L", "Drosophila melanogaster", "BDGP Release 5"),
       GenomeBuild("dm6", "Drosophila (BDGP Release 6)", "chr2L", "Drosophila melanogaster", "BDGP Release 6"),
       GenomeBuild("rn4", "Rat (RGSC 3.4)", "chr1", "Rattus norvegicus", "RGSC 3.4"),
       GenomeBuild("rn5", "Rat (RGSC 5.0)", "chr1", "Rattus norvegicus", "RGSC 5.0"),
       GenomeBuild("rn6", "Rat (RGSC 6.0)", "chr1", "Rattus norvegicus", "RGSC 6.0") >>

\* list(GENOMES.keys())
list_genomes == [i \in 1..Len(GENOMES) |-> GENOMES[i].name]

\* name in GENOMES
is_supported(name) == \E i \in 1..Len(GENOMES) : GENOMES[i].name = name

----------------------------------------------------------------------------
(* utils/r_interface.py *)

ScriptPath == S("scripts/annotate_genomic_segments.R")

DefaultPattern == S("*.bed")

\* _build_command_args appending the combine flag ahead of the other options
_build_command_argsCombineFirst(input_files, genome_build, output_directory, sample_name, include_cpg, include_genic, plot_formats, combine_analysis, pattern) ==
    LET input_str == IF input_files.t = "list"
                     THEN Join(input_files.v, S(","))
                     ELSE input_files.v
        base == << S("Rscript"), ScriptPath,
                   S("-i"), input_str,
                   S("-g"), genome_build,
                   S("-o"), output_directory,
                   S("--formats"), Join(plot_formats, S(",")) >>
        n == IF Truthy(sample_name) THEN << S("-n"), sample_name.v >> ELSE <<>>
        p == IF pattern # DefaultPattern THEN << S("--pattern"), pattern >> ELSE <<>>
        c == IF combine_analysis THEN << S("--combine") >> ELSE <<>>
    IN  base \o c \o n \o p

\* _build_command_args passing the two feature flags on to the script
_build_command_argsWithFeatureFlags(input_files, genome_build, output_directory, sample_name, include_cpg, include_genic, plot_formats, combine_analysis, pattern) ==
    LET input_str == IF input_files.t = "list"
                     THEN Join(input_files.v, S(","))
                     ELSE input_files.v
        base == << S("Rscript"), ScriptPath,
                   S("-i"), input_str,
                   S("-g"), genome_build,
                   S("-o"), output_directory,
                   S("--formats"), Join(plot_formats, S(",")) >>
        n == IF Truthy(sample_name) THEN << S("-n"), sample_name.v >> ELSE <<>>
        p == IF pattern # DefaultPattern THEN << S("--pattern"), pattern >> ELSE <<>>
        c == IF combine_analysis THEN << S("--combine") >> ELSE <<>>
        f == (IF include_cpg THEN <<>> ELSE << S("--no-cpg") >>)
             \o (IF include_genic THEN <<>> ELSE << S("--no-genic") >>)
    IN  base \o n \o p \o c \o f

_build_command_args(input_files, genome_build, output_directory, sample_name, include_cpg, include_genic, plot_formats, combine_analysis, pattern) ==
    LET input_str == IF input_files.t = "list"
                     THEN Join(input_files.v, S(","))
                     ELSE input_files.v
        base == << S("Rscript"), ScriptPath,
                   S("-i"), input_str,
                   S("-g"), genome_build,
                   S("-o"), output_directory,
                   S("--formats"), Join(plot_formats, S(",")) >>
        n == IF Truthy(sample_name) THEN << S("-n"), sample_name.v >> ELSE <<>>
        p == IF pattern # DefaultPattern THEN << S("--pattern"), pattern >> ELSE <<>>
        c == IF combine_analysis THEN << S("--combine") >> ELSE <<>>
    IN  base \o n \o p \o c

\* bytes.decode(): UTF-8, strict.  The model's bytes are ASCII letters and
\* 255, which is valid nowhere in UTF-8.
Chr(b) == IF b = 65 THEN "A" ELSE IF b = 66 THEN "B" ELSE "?"

FirstInvalid(bytes) ==
    LET bad == { i \in 1..Len(bytes) : bytes[i] >= 128 }
    IN  IF bad = {} THEN 0 ELSE CHOOSE i \in bad : \A j \in bad : i <= j

Decode(bytes) ==
    IF FirstInvalid(bytes) = 0
    THEN Returned([i \in 1..Len(bytes) |-> Chr(bytes[i])])
    ELSE Raised(Exc("UnicodeDecodeError",
                    <<"'utf-8' codec can't decode byte 0xff in position ">>
                    \o IntStr(FirstInvalid(bytes) - 1)
                    \o <<": invalid start byte">>))

\* str(Path(p)): a trailing separator is dropped
PathStr(p) ==
    IF Len(p) > 1 /\ p[Len(p)] = "/" THEN SubSeq(p, 1, Len(p) - 1) ELSE p

\* A directory tree is NoDir (the path does not exist) or the sequence of its
\* files in traversal order; a file is [rel, name, suffix]: its path relative
\* to the directory, its name as atoms, and its suffix.
NoDir == [exists |-> FALSE]
Dir(files) == [exists |-> TRUE, files |-> files]

\* a directory that exists and whose listing fails with an OSError; only the
\* summary tool is given one
DirUnlistable(msg) == [exists |-> TRUE, oserror |-> msg]

EmptyManifest ==
    [annotation_files |-> <<>>, summary_files |-> <<>>,
     plot_files |-> <<>>, combined_files |-> <<>>]

\* Category looking for the words in the whole relative path
CategoryByPath(f) ==
    IF f.suffix = ".tsv"
    THEN IF Contains(f.rel, S("summary")) THEN "summary_files"
         ELSE IF Contains(f.rel, S("combined")) THEN "combined_files"
         ELSE "annotation_files"
    ELSE IF f.suffix \in {".png", ".pdf", ".svg"} THEN "plot_files"
    ELSE "none"

Category(f) ==
    IF f.suffix = ".tsv"
    THEN IF Contains(f.name, S("summary")) THEN "summary_files"
         ELSE IF Contains(f.name, S("combined")) THEN "combined_files"
         ELSE "annotation_files"
    ELSE IF f.suffix \in {".png", ".pdf", ".svg"} THEN "plot_files"
    ELSE "none"

RECURSIVE ScanFiles(_, _)
ScanFiles(files, acc) ==
    IF files = <<>> THEN acc
    ELSE LET f == Head(files)
             c == Category(f)
         IN  ScanFiles(Tail(files),
                       IF c = "none" THEN acc
                       ELSE [acc EXCEPT ![c] = Append(@, f.rel)])

\* returns the empty dict for a directory that does not exist
_scan_output_files(output_dir) ==
    IF ~output_dir.exists THEN <<>>
    ELSE ScanFiles(output_dir.files, EmptyManifest)

RScriptError(msg) == Exc("RScriptError", msg)

_process_results(returncode, stdout, stderr, output_directory, tree) ==
    IF returncode # 0
    THEN Raised(RScriptError(<<"R script failed with return code ">>
                             \o IntStr(returncode) \o <<":\n">> \o stderr))
    ELSE Returned([success |-> TRUE,
                   returncode |-> returncode,
                   stdout |-> stdout,
                   stderr |-> stderr,
                   output_directory |-> PathStr(output_directory),
                   generated_files |-> _scan_output_files(tree)])


\* RunExcept with the general clause tried first: a timeout is reported like
\* any other failure
RunExceptGeneralFirst(e, timeout) ==
    RScriptError(<<"R script execution failed: ">> \o e.msg)

\* the except clauses of run_annotation
RunExcept(e, timeout) ==
    IF e.type = "TimeoutError"
    THEN RScriptError(<<"R script execution timed out after ">>
                      \o IntStr(timeout) \o <<" seconds">>)
    ELSE RScriptError(<<"R script execution failed: ">> \o e.msg)

\* run_annotation once communicate() has returned within the timeout
RunCompleted(returncode, out, err, output_directory, tree, timeout) ==
    LET o == Decode(out)
        e == Decode(err)
    IN  IF o.k = "raise" THEN Raised(RunExcept(o.exc, timeout))
        ELSE IF e.k = "raise" THEN Raised(RunExcept(e.exc, timeout))
        ELSE LET r == _process_results(returncode, o.v, e.v, output_directory, tree)
             IN  IF r.k = "raise" THEN Raised(RunExcept(r.exc, timeout)) ELSE r

\* run_annotation when wait_for raises TimeoutError
RunTimedOut(timeout) == Raised(RunExcept(Exc("TimeoutError", <<>>), timeout))

\* run_annotation when create_subprocess_exec raises
RunLaunchFailed(e, timeout) == Raised(RunExcept(e, timeout))

----------------------------------------------------------------------------
(* server.py *)

\* a handler's result: a list holding one TextContent
TextResp(text) == Returned(<< [type |-> "text", text |-> text] >>)

NotInitializedText ==
    <<"Error: R script runner not initialized. Please check R environment setup.">>

UnknownToolText(name) == <<"Unknown tool: ">> \o name

ErrorExecutingText(name, msg) == <<"Error executing ">> \o name \o <<": ">> \o msg

UnsupportedGenomeText(genome_build) ==
    <<"Error: Unsupported genome build '">> \o genome_build
    \o <<"'. Available: ">> \o Join(list_genomes, S(", "))

AnnotationFailedText(msg) == <<"Annotation failed: ">> \o msg

DefaultPlotFormats == << S("png"), S("pdf") >>

\* AnnotateArgs with the default the input schema declares for sample_name
AnnotateArgsSchemaDefaults(arguments) ==
    IF "input_files" \notin DOMAIN arguments
    THEN Raised(KeyError(S("input_files")))
    ELSE IF "genome_build" \notin DOMAIN arguments
    THEN Raised(KeyError(S("genome_build")))
    ELSE IF "output_directory" \notin DOMAIN arguments
    THEN Raised(KeyError(S("output_directory")))
    ELSE Returned(
      [input_files |-> arguments["input_files"],
       genome_build |-> arguments["genome_build"],
       output_directory |-> arguments["output_directory"],
       sample_name |-> Get(arguments, "sample_name", PStr(S("sample"))),
       include_cpg |-> Get(arguments, "include_cpg", TRUE),
       include_genic |-> Get(arguments, "include_genic", TRUE),
       plot_formats |-> Get(arguments, "plot_formats", << S("png"), S("pdf") >>),
       combine_analysis |-> Get(arguments, "combine_analysis", FALSE),
       timeout |-> Get(arguments, "timeout", 300)])

\* extraction of the arguments, with the defaults of the optional ones
AnnotateArgs(arguments) ==
    IF "input_files" \notin DOMAIN arguments
    THEN Raised(KeyError(S("input_files")))
    ELSE IF "genome_build" \notin DOMAIN arguments
    THEN Raised(KeyError(S("genome_build")))
    ELSE IF "output_directory" \notin DOMAIN arguments
    THEN Raised(KeyError(S("output_directory")))
    ELSE Returned(
      [input_files |-> arguments["input_files"],
       genome_build |-> arguments["genome_build"],
       output_directory |-> arguments["output_directory"],
       sample_name |-> Get(arguments, "sample_name", PNone),
       include_cpg |-> Get(arguments, "include_cpg", TRUE),
       include_genic |-> Get(arguments, "include_genic", TRUE),
       plot_formats |-> Get(arguments, "plot_formats", DefaultPlotFormats),
       combine_analysis |-> Get(arguments, "combine_analysis", FALSE),
       timeout |-> Get(arguments, "timeout", 300)])

\* JobCommand that never asks for the combined analysis
JobCommandNoCombine(j) ==
    _build_command_args(j.input_files, j.genome_build, j.output_directory, j.sample_name, j.include_cpg, j.include_genic, j.plot_formats, FALSE, DefaultPattern)

\* the command run_annotation launches for a job (pattern keeps its default)
JobCommand(j) ==
    _build_command_args(j.input_files, j.genome_build, j.output_directory, j.sample_name, j.include_cpg, j.include_genic, j.plot_formats, j.combine_analysis, DefaultPattern)

\* Python: f"{input_files}" (str of a str, repr of a list)
RECURSIVE ReprItems(_)
ReprItems(l) ==
    IF l = <<>> THEN <<>>
    ELSE <<"'">> \o Head(l) \o <<"'">>
         \o (IF Len(l) > 1 THEN <<", ">> ELSE <<>>) \o ReprItems(Tail(l))

FormatInput(input_files) ==
    IF input_files.t = "list"
    THEN <<"[">> \o ReprItems(input_files.v) \o <<"]">>
    ELSE input_files.v

FirstN(s, n) == SubSeq(s, 1, IF Len(s) < n THEN Len(s) ELSE n)

RECURSIVE Bullets(_)
Bullets(l) ==
    IF l = <<>> THEN <<>>
    ELSE <<"- ">> \o Head(l)
         \o (IF Len(l) > 1 THEN <<"\n">> ELSE <<>>) \o Bullets(Tail(l))

SuccessText(j, results) ==
    LET gf == results.generated_files
    IN  <<"Genomic annotation completed successfully!\n\n**Input**: ">>
        \o FormatInput(j.input_files)
        \o <<"\n**Genome Build**: ">> \o j.genome_build
        \o <<"\n**Output Directory**: ">> \o results.output_directory
        \o <<"\n\n**Generated Files**:\n- Annotation files: ">>
        \o IntStr(Len(gf["annotation_files"]))
        \o <<"\n- Summary files: ">> \o IntStr(Len(gf["summary_files"]))
        \o <<"\n- Plot files: ">> \o IntStr(Len(gf["plot_files"]))
        \o <<"\n- Combined files: ">> \o IntStr(Len(gf["combined_files"]))
        \o <<"\n\n**Key Output Files**:\n">>
        \o Bullets(FirstN(gf["annotation_files"], 5))
        \o <<"\n\nYou can find all results in: ">> \o results.output_directory
        \o <<"\n">>
        \o (IF gf["plot_files"] # <<>>
            THEN <<"\n**Visualizations created**: ">>
                 \o Join(FirstN(gf["plot_files"], 3), S(", "))
            ELSE <<>>)

\* handle_annotate_genomic_regions after run_annotation has returned or raised
AnnotateFinish(j, run) ==
    IF run.k = "raise"
    THEN IF run.exc.type = "RScriptError"
         THEN TextResp(AnnotationFailedText(run.exc.msg))
         ELSE run
    ELSE IF "annotation_files" \notin DOMAIN run.v.generated_files
         THEN Raised(KeyError(S("annotation_files")))
         ELSE TextResp(SuccessText(j, run.v))

\* the try/except of handle_call_tool around the handler it awaits
Dispatch(name, outcome) ==
    IF outcome.k = "raise"
    THEN TextResp(ErrorExecutingText(name, outcome.exc.msg))
    ELSE outcome

----------------------------------------------------------------------------
(* server.py: the handlers that launch nothing *)

ToolAnnotate == S("annotate_genomic_regions")
ToolListGenomes == S("list_supported_genomes")
ToolValidateBed == S("validate_bed_format")
ToolSummary == S("get_annotation_summary")
ToolComparison == S("create_comparison_plot")

\* one entry of genomes_info
GenomeInfoText(g) ==
    <<"**">> \o g.name \o <<"**: ">> \o g.description
    \o <<"\n  - Species: ">> \o g.species
    \o <<"\n  - Assembly: ">> \o g.assembly
    \o <<"\n  - Annotations: ">> \o Join(g.annotations, S(", ")) \o <<"\n">>

handle_list_supported_genomes(arguments) ==
    TextResp(<<"**Supported Genome Builds**\n\n">>
             \o Join([i \in 1..Len(GENOMES) |-> GenomeInfoText(GENOMES[i])], S("\n"))
             \o <<"\n\n**Usage**: Specify any of these genome names in the genome_build parameter when calling annotate_genomic_regions.">>
             \o <<"\n\n**Example**: Use \"mm10\" for mouse genome analysis or \"hg38\" for human genome analysis.\n">>)

\* What lies at a path the validation tools are given: nothing, a directory,
\* a file that is not UTF-8 text (its first byte is 0xff), or a text file.  A
\* text file is the sequence of its lines: a blank line, a comment (a line
\* whose first character is #), an indented comment (white space, then #, then
\* cols tab-separated fields) or a data line of cols tab-separated fields.
NoFile == [kind |-> "missing"]
Directory == [kind |-> "dir"]
NotText == [kind |-> "binary"]
TextFile(lines) == [kind |-> "text", lines |-> lines]

BlankLine == [k |-> "blank"]
CommentLine == [k |-> "comment"]
IndentedComment(cols) == [k |-> "icomment", cols |-> cols]
DataLine(cols) == [k |-> "data", cols |-> cols]

\* Path(file_path).exists()
PathExists(file) == file.kind # "missing"

\* schemas/bed_formats.py detect_bed_format: the format of the first line that
\* is neither empty nor a comment once stripped; an exception of open() or of
\* the decoding gives UNKNOWN
RECURSIVE FirstDataLine(_)
FirstDataLine(lines) ==
    IF lines = <<>> THEN "unknown"
    ELSE IF Head(lines).k # "data" THEN FirstDataLine(Tail(lines))
    ELSE IF Head(lines).cols >= 12 THEN "bed12"
    ELSE IF Head(lines).cols >= 6 THEN "bed6"
    ELSE IF Head(lines).cols >= 3 THEN "bed3"
    ELSE "unknown"

detect_bed_format(file) ==
    IF file.kind # "text" THEN "unknown" ELSE FirstDataLine(file.lines)

\* str.upper() of the values of BEDFormat
Upper(value) ==
    IF value = "bed3" THEN "BED3" ELSE IF value = "bed6" THEN "BED6"
    ELSE IF value = "bed12" THEN "BED12" ELSE "UNKNOWN"

\* The text of the lines.  A data line holds the first cols fields of
\* BedRow, an indented comment the same fields behind " #", a comment is
\* "#c" and a blank line is empty.
BedRow == <<"chr1", "100", "200", "a", "0", "+", "100", "200", "0", "1", "100", "0">>

Fields(line) ==
    IF line.k = "blank" THEN <<>>
    ELSE IF line.k = "comment" THEN <<"#c">>
    ELSE IF line.k = "icomment"
    THEN [i \in 1..line.cols |-> IF i = 1 THEN " #chr1" ELSE BedRow[i]]
    ELSE SubSeq(BedRow, 1, line.cols)

\* len(field) for the fields above
StrLen(field) ==
    IF field = " #chr1" THEN 6
    ELSE IF field = "chr1" THEN 4
    ELSE IF field \in {"100", "200"} THEN 3
    ELSE IF field = "#c" THEN 2
    ELSE 1

\* a cell that read_csv filled in for a row shorter than the first
Missing == "<missing>"

\* pd.read_csv(file_path, sep="\t", nrows=5, header=None) of a text file: the
\* empty lines are skipped and the first five of the others are the rows; no
\* line is a comment to read_csv.  The first row fixes the number of columns:
\* a row with more fields raises ParserError, a row with fewer is filled with
\* missing values; a file without a row raises EmptyDataError.  Rows after
\* the fifth are not read.
read_csv(lines) ==
    LET rows == FirstN(SelectSeq([i \in 1..Len(lines) |-> Fields(lines[i])],
                                 LAMBDA f : f # <<>>), 5)
    IN  IF rows = <<>>
        THEN Raised(Exc("EmptyDataError", <<"No columns to parse from file">>))
        ELSE IF \E i \in 1..Len(rows) : Len(rows[i]) > Len(rows[1])
        THEN Raised(Exc("ParserError", <<"Error tokenizing data. C error: Expected ">>
                        \o IntStr(Len(rows[1])) \o <<" fields, saw more">>))
        ELSE Returned([i \in 1..Len(rows) |->
                        [c \in 1..Len(rows[1]) |->
                           IF c <= Len(rows[i]) THEN rows[i][c] ELSE Missing]])

\* df.to_string(index=False, header=False): a column whose values are all
\* integers is printed as they are, and as floats ("100.0") when one of them
\* is missing; every other value is printed as its text and a missing value
\* as NaN.  The cells of a column are right-justified to the widest of them,
\* the columns joined by one space and the rows by a newline.
to_string(df) ==
    LET Rows == 1..Len(df)
        IsInt(field) == field \in {"100", "200", "0", "1"}
        FloatColumn(c) ==
            /\ \A i \in Rows : df[i][c] = Missing \/ IsInt(df[i][c])
            /\ \E i \in Rows : df[i][c] = Missing
        CellText(i, c) ==
            IF df[i][c] = Missing THEN <<"NaN">>
            ELSE IF FloatColumn(c) THEN <<df[i][c], ".0">>
            ELSE <<df[i][c]>>
        CellLen(i, c) ==
            IF df[i][c] = Missing THEN 3
            ELSE IF FloatColumn(c) THEN StrLen(df[i][c]) + 2
            ELSE StrLen(df[i][c])
        ColumnWidth(c) ==
            CHOOSE w \in { CellLen(i, c) : i \in Rows } :
                \A i \in Rows : CellLen(i, c) <= w
        Spaces(n) == [k \in 1..n |-> " "]
    IN  Join([i \in Rows |->
                Join([c \in 1..Len(df[1]) |->
                        Spaces(ColumnWidth(c) - CellLen(i, c)) \o CellText(i, c)],
                     S(" "))],
             S("\n"))

\* the preview of handle_validate_bed_format: its inner try/except, which
\* also takes the exception read_csv raises for a directory and for a file
\* that is not UTF-8
Preview(file) ==
    IF file.kind # "text" THEN <<"Could not read file content">>
    ELSE LET df == read_csv(file.lines)
         IN  IF df.k = "raise" THEN <<"Could not read file content">>
             ELSE to_string(df.v)

\* the outcome of the import statements of a handler: pandas is installed,
\* or it is not
ImportsDone == Returned(PNone)
PandasMissing == Raised(Exc("ModuleNotFoundError", <<"No module named 'pandas'">>))

\* file: what lies at file_path; imports: the outcome of the two import
\* statements of the try block
handle_validate_bed_format(arguments, file, imports) ==
    IF "file_path" \notin DOMAIN arguments
    THEN Raised(KeyError(S("file_path")))
    ELSE IF ~PathExists(file)
    THEN TextResp(<<"File not found: ">> \o arguments["file_path"])
    ELSE IF imports.k = "raise"
    THEN TextResp(<<"Validation error: ">> \o imports.exc.msg)
    ELSE TextResp(<<"**BED File Validation Results**\n\n**File**: ">>
                  \o arguments["file_path"]
                  \o <<"\n**Detected Format**: ", Upper(detect_bed_format(file))>>
                  \o <<"\n**Status**: Valid BED format detected">>
                  \o <<"\n\n**Preview** (first 5 lines):\n\n">>
                  \o Preview(file)
                  \o <<"\n\n\n**Format Details**:">>
                  \o <<"\n- BED3: chrom, chromStart, chromEnd (minimum required)">>
                  \o <<"\n- BED6: + name, score, strand">>
                  \o <<"\n- BED12: + thickStart, thickEnd, itemRgb, blockCount, blockSizes, blockStarts">>
                  \o <<"\n\nThis file can be used with the annotate_genomic_regions tool.\n">>)

\* rglob(pattern) for the patterns "*<word>*.tsv" and "*.<ext>"
\* the pattern is matched against the whole file name, so a name that is only
\* an extension (".png") matches "*.png" although its Path.suffix is empty
GlobWord(files, word) ==
    SelectSeq(files, LAMBDA f : f.name[Len(f.name)] = ".tsv"
                                /\ Contains(SubSeq(f.name, 1, Len(f.name) - 1), S(word)))

GlobSuffix(files, suffix) == SelectSeq(files, LAMBDA f : f.name[Len(f.name)] = suffix)

\* "\n".join(f"- {f.name}" for f in files)
NameBullets(files) == Bullets([i \in 1..Len(files) |-> files[i].name])

\* tree: the results directory; a directory may also exist and fail to be
\* listed (rglob raises an OSError other than PermissionError, which it
\* swallows).  summary_read: the outcome of importing pandas and of
\* read_csv(summary_files[0], sep="\t").head().to_string(index=False), the
\* table text or the exception; it is used only when there is a summary file.
handle_get_annotation_summary(arguments, tree, summary_read) ==
    IF "results_directory" \notin DOMAIN arguments
    THEN Raised(KeyError(S("results_directory")))
    ELSE IF ~tree.exists
    THEN TextResp(<<"Results directory not found: ">> \o arguments["results_directory"])
    ELSE IF "oserror" \in DOMAIN tree
    THEN TextResp(<<"Error reading results: ">> \o tree.oserror)
    ELSE LET summary_files == GlobWord(tree.files, "summary")
             annotation_files == GlobWord(tree.files, "annotated")
             plot_files == GlobSuffix(tree.files, ".png") \o GlobSuffix(tree.files, ".pdf")
             details ==
                 IF summary_files = <<>> THEN <<>>
                 ELSE IF summary_read.k = "raise"
                 THEN <<"\n(Could not read summary file details)">>
                 ELSE <<"\n\n**Sample Summary** (from ">> \o summary_files[1].name
                      \o <<"):\n\n">> \o summary_read.v \o <<"\n\n">>
         IN  TextResp(<<"**Annotation Results Summary**\n\n**Directory**: ">>
                      \o arguments["results_directory"]
                      \o <<"\n\n**Files Found**:\n- Summary files: ">>
                      \o IntStr(Len(summary_files))
                      \o <<"\n- Annotation files: ">> \o IntStr(Len(annotation_files))
                      \o <<"\n- Plot files: ">> \o IntStr(Len(plot_files))
                      \o <<"\n\n**Summary Files**:\n">> \o NameBullets(summary_files)
                      \o <<"\n\n**Annotation Files**:\n">>
                      \o NameBullets(FirstN(annotation_files, 5))
                      \o <<"\n\n**Visualizations**:\n">>
                      \o NameBullets(FirstN(plot_files, 5))
                      \o <<"\n">>
                      \o details)

handle_create_comparison_plot(arguments) ==
    TextResp(<<"Comparison plot creation is not yet implemented. Use the --combine flag in annotate_genomic_regions for basic comparisons.">>)

\* handle_annotate_genomic_regions up to the call of run_annotation:
\* a raised KeyError, the rejection of the genome build, or the job to run
AnnotateStart(arguments) ==
    LET a == AnnotateArgs(arguments)
    IN  IF a.k = "raise" THEN a
        ELSE IF ~is_supported(a.v.genome_build)
        THEN TextResp(UnsupportedGenomeText(a.v.genome_build))
        ELSE [k |-> "launch", job |-> a.v]

\* the if/elif chain of handle_call_tool
Route(name, arguments, tree, file, imports, summary_read) ==
    IF name = ToolAnnotate THEN AnnotateStart(arguments)
    ELSE IF name = ToolListGenomes THEN handle_list_supported_genomes(arguments)
    ELSE IF name = ToolValidateBed THEN handle_validate_bed_format(arguments, file, imports)
    ELSE IF name = ToolSummary
    THEN handle_get_annotation_summary(arguments, tree, summary_read)
    ELSE IF name = ToolComparison THEN handle_create_comparison_plot(arguments)
    ELSE TextResp(UnknownToolText(name))

----------------------------------------------------------------------------
(* simple_server.py *)

SimpleContent(text) == << [type |-> "text", text |-> text] >>

SimpleOk(text) == Returned([content |-> SimpleContent(text)])

\* SimpleFail without the isError flag
SimpleFailUnflagged(text) == Returned([content |-> SimpleContent(text)])

SimpleFail(text) == Returned([content |-> SimpleContent(text), isError |-> TRUE])

SimpleError(text) == Returned([error |-> text])

\* possible_paths of _find_r_script as str(p) gives them: Path drops the
\* leading "./" of the third, and the fourth is the scripts directory four
\* levels above simple_server.py
SimplePossiblePaths ==
    << S("/app/scripts/annotate_genomic_segments.R"),
       S("scripts/annotate_genomic_segments.R"),
       S("scripts/annotate_genomic_segments.R"),
       <<"<checkout>", "/scripts/annotate_genomic_segments.R">> >>

\* _find_r_script: the first of the possible paths that exists; exists[i]
\* tells whether the i-th does
_find_r_script(exists) ==
    IF \E i \in 1..Len(SimplePossiblePaths) : exists[i]
    THEN Returned(SimplePossiblePaths[
             CHOOSE i \in 1..Len(SimplePossiblePaths) :
                 exists[i] /\ \A j \in 1..(i - 1) : ~exists[j]])
    ELSE Raised(Exc("FileNotFoundError", <<"R script not found">>))

\* SimpleMCPServer(): the object with its r_script_path, or the exception
\* of _find_r_script
SimpleMCPServerInit(exists) ==
    IF _find_r_script(exists).k = "raise" THEN _find_r_script(exists)
    ELSE Returned([r_script_path |-> _find_r_script(exists).v])

\* the command _annotate_regions launches
SimpleCommand(r_script_path, args) ==
    << S("Rscript"), r_script_path,
       S("-i"), Get(args, "input_file", <<>>),
       S("-g"), Get(args, "genome_build", S("hg38")),
       S("-o"), Get(args, "output_dir", S("/app/output")),
       S("--formats"), S("png,pdf") >>

\* _annotate_regions once communicate() has returned
SimpleAnnotateFinish(returncode, out, err) ==
    LET d == IF returncode = 0 THEN Decode(out) ELSE Decode(err)
    IN  IF d.k = "raise" THEN SimpleFail(<<"Error: ">> \o d.exc.msg)
        ELSE IF returncode = 0
        THEN SimpleOk(<<"Annotation completed successfully!\n\nOutput: ">> \o d.v)
        ELSE SimpleFail(<<"Annotation failed:\n">> \o d.v)

\* _annotate_regions when create_subprocess_exec raises
SimpleLaunchFailed(e) == SimpleFail(<<"Error: ">> \o e.msg)

\* the genomes dict of _list_genomes, in insertion order
SimpleGenomes ==
    << <<"hg38", "Human (GRCh38/hg38)">>, <<"hg19", "Human (GRCh37/hg19)">>,
       <<"mm10", "Mouse (GRCm38/mm10)">>, <<"mm9", "Mouse (NCBI37/mm9)">>,
       <<"dm6", "Drosophila (BDGP6/dm6)">>, <<"dm3", "Drosophila (BDGP5/dm3)">>,
       <<"rn6", "Rat (Rnor_6.0/rn6)">>, <<"rn5", "Rat (Rnor_5.0/rn5)">>,
       <<"rn4", "Rat (RGSC_3.4/rn4)">> >>

_list_genomes ==
    LET genome_list ==
            Join([i \in 1..Len(SimpleGenomes) |->
                    <<"**", SimpleGenomes[i][1], "**: ", SimpleGenomes[i][2]>>],
                 S("\n"))
    IN  SimpleOk(<<"## Supported Genome Builds\n\n">> \o genome_list
                 \o <<"\n\nUse any of these genome codes in your annotation requests.">>)

\* the lines of readlines()[:10] that are neither comments nor blank and
\* have at least three tab-separated fields; line.startswith("#") looks at
\* the unstripped line, so an indented comment counts as data
RECURSIVE ValidLines(_)
ValidLines(lines) ==
    IF lines = <<>> THEN 0
    ELSE (IF Head(lines).k \in {"data", "icomment"} /\ Head(lines).cols >= 3
          THEN 1 ELSE 0)
         + ValidLines(Tail(lines))

\* open(file_path) and f.readlines(): the lines, or the exception
OpenAndRead(file_path, file) ==
    IF file_path = <<>> \/ file.kind = "missing"
    THEN Raised(Exc("FileNotFoundError",
                    <<"[Errno 2] No such file or directory: '">> \o file_path \o <<"'">>))
    ELSE IF file.kind = "dir"
    THEN Raised(Exc("IsADirectoryError",
                    <<"[Errno 21] Is a directory: '">> \o file_path \o <<"'">>))
    ELSE IF file.kind = "binary"
    THEN Raised(Exc("UnicodeDecodeError",
                    <<"'utf-8' codec can't decode byte 0xff in position 0: invalid start byte">>))
    ELSE Returned(file.lines)

\* file: what lies at file_path.  Path("") is the current directory, which
\* exists and which open("") does not find.
_validate_bed(args, file) ==
    LET file_path == Get(args, "file_path", <<>>)
        lines == OpenAndRead(file_path, file)
    IN  IF file_path # <<>> /\ ~PathExists(file)
        THEN SimpleFail(<<"File not found: ">> \o file_path)
        ELSE IF lines.k = "raise"
        THEN SimpleFail(<<"Validation error: ">> \o lines.exc.msg)
        ELSE LET valid_lines == ValidLines(FirstN(lines.v, 10))
                 bed_format == IF valid_lines > 0 THEN "BED3+" ELSE "Invalid"
             IN  SimpleOk(<<"## BED File Validation\n\n**File**: ">> \o file_path
                          \o <<"\n**Format**: ", bed_format, "\n**Valid lines**: ">>
                          \o IntStr(valid_lines)
                          \o <<"\n\nFile appears to be a valid BED format.">>)

\* the tools registered by run_stdio_server, in registration order
SimpleTools == << ToolAnnotate, ToolListGenomes, ToolValidateBed >>

\* one item of a parameters dict: key: {"type": ..., "description": ...}
Param(key, type, description) ==
    [key |-> S(key), type |-> S(type), description |-> S(description)]

\* the descriptor register_tool stores; parameters is the dict as the
\* sequence of its items in insertion order
Descriptor(name, description, parameters) ==
    [name |-> name,
     description |-> description,
     inputSchema |-> [type |-> "object", properties |-> parameters,
                      required |-> [i \in 1..Len(parameters) |-> parameters[i].key]]]

\* self.tools[name] = descriptor: a new key is added last, an existing key
\* keeps its place and gets the new value
DictSet(registry, name, descriptor) ==
    IF \E i \in 1..Len(registry) : registry[i].name = name
    THEN [i \in 1..Len(registry) |->
            IF registry[i].name = name THEN descriptor ELSE registry[i]]
    ELSE Append(registry, descriptor)

\* the registry after the three register_tool calls of run_stdio_server
StdioRegistry ==
    LET a == DictSet(<<>>, ToolAnnotate,
                     Descriptor(ToolAnnotate,
                                <<"Annotate genomic regions from BED files using annotatr">>,
                                << Param("input_file", "string", "Path to input BED file"),
                                   Param("genome_build", "string", "Genome build (hg38, mm10, etc.)"),
                                   Param("output_dir", "string", "Output directory path") >>))
        b == DictSet(a, ToolListGenomes,
                     Descriptor(ToolListGenomes, <<"List all supported genome builds">>, <<>>))
    IN  DictSet(b, ToolValidateBed,
                Descriptor(ToolValidateBed, <<"Validate BED file format and structure">>,
                           << Param("file_path", "string", "Path to BED file to validate") >>))

\* str(method) where method is request.get("method")
MethodStr(request) == Get(request, "method", S("None"))

\* handle_request: a response, a raised KeyError, or the command to launch
SimpleRoute(request, file) ==
    IF "method" \in DOMAIN request /\ request["method"] = S("tools/list")
    THEN Returned([tools |-> tools])
    ELSE IF "method" \in DOMAIN request /\ request["method"] = S("tools/call")
    THEN IF "params" \notin DOMAIN request THEN Raised(KeyError(S("params")))
         ELSE IF "name" \notin DOMAIN request["params"] THEN Raised(KeyError(S("name")))
         ELSE IF "arguments" \notin DOMAIN request["params"]
         THEN Raised(KeyError(S("arguments")))
         ELSE LET tool_name == request["params"]["name"]
                  arguments == request["params"]["arguments"]
              IN  IF tool_name = ToolAnnotate
                  THEN [k |-> "launch", job |-> arguments]
                  ELSE IF tool_name = ToolListGenomes THEN _list_genomes
                  ELSE IF tool_name = ToolValidateBed
                  THEN _validate_bed(arguments, file)
                  ELSE SimpleError(<<"Unknown tool: ">> \o tool_name)
    ELSE SimpleError(<<"Unknown method: ">> \o MethodStr(request))

----------------------------------------------------------------------------
(* The inputs the environment may supply *)

\* an optional entry of an argument bag: absent, or present with a value
Absent == [has |-> FALSE]
Present(v) == [has |-> TRUE, v |-> v]

Entry(key, o) == IF o.has THEN key :> o.v ELSE <<>>

InputFilesChoices ==
    { Absent, Present(PStr(S("a.bed"))), Present(PStr(<<>>)), Present(PList(<<>>)),
      Present(PList(<< S("a.bed"), S("b.bed") >>)) }

GenomeChoices ==
    { Absent, Present(S("hg38")), Present(S("mm10")), Present(S("hg37")),
      Present(S("HG38")) }

OutputDirChoices == { Absent, Present(S("/out")), Present(<<"/out", "/">>) }

SampleNameChoices == { Absent, Present(PStr(S("s1"))) }

CombineChoices == { Absent, Present(TRUE) }

TimeoutChoices == { Absent } \cup { Present(t) : t \in 0..MaxTimeout }

AnnotateBags ==
    { Entry("input_files", i) @@ Entry("genome_build", g)
      @@ Entry("output_directory", o) @@ Entry("sample_name", n)
      @@ Entry("combine_analysis", c) @@ Entry("timeout", t) :
        i \in InputFilesChoices, g \in GenomeChoices, o \in OutputDirChoices,
        n \in SampleNameChoices, c \in CombineChoices, t \in TimeoutChoices }

\* the fields handle_annotate_genomic_regions reads with arguments[...]
RequiredKeys == {"input_files", "genome_build", "output_directory"}

\* bags with valid required fields that set at most two of the other
\* optional ones
OptionBags ==
    { b \in { ("input_files" :> PStr(S("a.bed"))) @@ ("genome_build" :> S("hg38"))
              @@ ("output_directory" :> S("/out")) @@ Entry("sample_name", n)
              @@ Entry("include_cpg", cpg) @@ Entry("include_genic", genic)
              @@ Entry("plot_formats", f) @@ Entry("combine_analysis", c) :
                n \in { Absent, Present(PNone), Present(PStr(<<>>)) },
                cpg \in { Absent, Present(FALSE) }, genic \in { Absent, Present(FALSE) },
                f \in { Absent, Present(<< S("svg") >>), Present(<<>>) },
                c \in { Absent, Present(FALSE) } } :
        Cardinality(DOMAIN b) <= 5 }

OtherBags ==
    { Entry("file_path", f) @@ Entry("results_directory", d) :
        f \in { Absent, Present(S("a.bed")) }, d \in { Absent, Present(S("/out")) } }

ToolNames ==
    { ToolAnnotate, ToolListGenomes, ToolValidateBed, ToolSummary, ToolComparison,
      S("unknown_tool"), <<>> }

\* the bags tried with each tool name
BagsFor(name) == IF name = ToolAnnotate THEN AnnotateBags \cup OptionBags ELSE OtherBags

SimpleBags ==
    { Entry("input_file", i) @@ Entry("genome_build", g) @@ Entry("output_dir", o) :
        i \in { Absent, Present(S("a.bed")) },
        g \in { Absent, Present(S("mm10")), Present(S("hg37")) },
        o \in { Absent, Present(S("/out")) } }

SimpleParams ==
    { Entry("name", n) @@ Entry("arguments", a) :
        n \in { Absent, Present(ToolAnnotate), Present(ToolListGenomes),
                Present(ToolValidateBed), Present(ToolSummary),
                Present(S("unknown_tool")) },
        a \in { Absent } \cup { Present(b) : b \in SimpleBags } }

SimpleRequests ==
    { Entry("method", m) @@ Entry("params", p) :
        m \in { Absent, Present(S("tools/list")), Present(S("tools/call")),
                Present(S("resources/list")) },
        p \in { Absent } \cup { Present(q) : q \in SimpleParams } }

\* what create_subprocess_exec may do: start the process, or raise
LaunchOk == [ok |-> TRUE]
LaunchRaises(e) == [ok |-> FALSE, exc |-> e]

LaunchChoices ==
    { LaunchOk,
      LaunchRaises(Exc("FileNotFoundError",
                       <<"[Errno 2] No such file or directory: 'Rscript'">>)) }

\* the bytes a process may have written to one of its streams
RECURSIVE BytesUpTo(_, _)
BytesUpTo(alphabet, n) ==
    IF n = 0 THEN { <<>> }
    ELSE BytesUpTo(alphabet, n - 1)
         \cup { Append(b, x) : b \in BytesUpTo(alphabet, n - 1), x \in alphabet }

StdoutChoices == BytesUpTo({65, 255}, MaxStreamLen)
StderrChoices == BytesUpTo({66, 255}, MaxStreamLen)

File(rel, name, suffix) == [rel |-> rel, name |-> name, suffix |-> suffix]

Trees ==
    { NoDir, Dir(<<>>),
      Dir(<< File(<<"s1", "_", "annotated", ".tsv">>, <<"s1", "_", "annotated", ".tsv">>, ".tsv"),
             File(<<"plots", "/", "s1", ".png">>, <<"s1", ".png">>, ".png") >>) }

\* the results directories the summary tool is given
SummaryTrees ==
    Trees
    \cup { Dir(<< File(<<"s1", "_", "summary", ".tsv">>, <<"s1", "_", "summary", ".tsv">>, ".tsv"),
                  File(<<"s1", "_", "annotated", ".tsv">>, <<"s1", "_", "annotated", ".tsv">>, ".tsv"),
                  File(<<"plot", ".pdf">>, <<"plot", ".pdf">>, ".pdf") >>),
           DirUnlistable(<<"[Errno 5] Input/output error: '/out'">>) }

\* what importing pandas and reading the first summary file may give
SummaryReads ==
    { Returned(<<"annot.type  n\n      exon  3">>),
      PandasMissing }

\* what may lie at the path the validation tools are given
BedFiles ==
    { NoFile, Directory, NotText,
      TextFile(<<>>),
      TextFile(<< DataLine(3) >>),
      TextFile(<< CommentLine, BlankLine, DataLine(6) >>),
      TextFile(<< DataLine(2), DataLine(12) >>),
      TextFile(<< DataLine(6), DataLine(3) >>),
      TextFile(<< IndentedComment(3) >>),
      TextFile([i \in 1..11 |-> IF i <= 10 THEN CommentLine ELSE DataLine(3)]) }

\* the environment a tool consults: the others are offered one value
LaunchesFor(name) == IF name = ToolAnnotate THEN LaunchChoices ELSE { LaunchOk }
TreesFor(name) == IF name = ToolSummary THEN SummaryTrees ELSE { NoDir }
FilesFor(name) == IF name = ToolValidateBed THEN BedFiles ELSE { NoFile }
ImportsFor(name) == IF name = ToolValidateBed THEN { ImportsDone, PandasMissing } ELSE { ImportsDone }
SummaryReadsFor(name) == IF name = ToolSummary THEN SummaryReads ELSE { PandasMissing }

\* the files offered to a request of the simple server
SimpleFilesFor(request) ==
    IF /\ "params" \in DOMAIN request
       /\ "name" \in DOMAIN request["params"]
       /\ request["params"]["name"] = ToolValidateBed
    THEN BedFiles ELSE { NoFile }

----------------------------------------------------------------------------
(* The state machine *)

NoReq == [server |-> "none"]
Nothing == [k |-> "none"]
NoEvent == [ev |-> "none"]

\* at most this many calls of handle_call_tool are in flight together
MaxJobs == 2

JobIds == 1..MaxJobs

\* a task that runs no call
IdleJob ==
    [pc |-> "idle", job |-> Nothing, proc |-> "none", env |-> NoEvent,
     runres |-> Nothing, resp |-> Nothing]

NoJobs == [id \in JobIds |-> IdleJob]

\* the script lies at the path relative to the current directory and at no
\* other of the possible paths
ScriptHere == [i \in 1..4 |-> i \in {2, 3}]

\* the SimpleMCPServer constructed there
ServerHere == SimpleMCPServerInit(ScriptHere)

\* server.py imported and not started; a SimpleMCPServer constructed where
\* the script lies in the current directory, the tools of run_stdio_server
\* registered
Init ==
    /\ r_runner = "None"
    /\ pc = "idle"
    /\ req = NoReq
    /\ job = Nothing
    /\ proc = "none"
    /\ cmd = <<>>
    /\ launches = 0
    /\ env = NoEvent
    /\ runres = Nothing
    /\ handled = Nothing
    /\ resp = Nothing
    /\ startup = Nothing
    /\ loop = "off"
    /\ consumed = <<>>
    /\ written = <<>>
    /\ unit = Nothing
    /\ tools = StdioRegistry
    /\ server = ServerHere
    /\ jobs = NoJobs

\* what subprocess.run(["Rscript", "--version"], timeout=10) may do
VersionExit(code) == [k |-> "exit", code |-> code]
VersionRaises(e) == [k |-> "raise", exc |-> e]

VersionChoices ==
    { VersionExit(c) : c \in 0..MaxReturnCode }
    \cup { VersionRaises(Exc("FileNotFoundError",
                             <<"[Errno 2] No such file or directory: 'Rscript'">>)),
           VersionRaises(Exc("TimeoutExpired",
                             <<"Command '['Rscript', '--version']' timed out after 10 seconds">>)),
           VersionRaises(Exc("PermissionError",
                             <<"[Errno 13] Permission denied: 'Rscript'">>)) }

REnvironmentError(msg) == Exc("REnvironmentError", msg)

\* the exceptions the except clause of _validate_r_environment names
Caught(e) == e.type \in {"TimeoutExpired", "FileNotFoundError"}

\* an exception of subprocess.run that the except clause does not name (an
\* Rscript that may not be executed) leaves unchanged
_validate_r_environment(version) ==
    IF version.k = "raise"
    THEN IF Caught(version.exc)
         THEN Raised(REnvironmentError(<<"R environment validation failed: ">>
                                       \o version.exc.msg))
         ELSE Raised(version.exc)
    ELSE IF version.code # 0
    THEN Raised(REnvironmentError(<<"Rscript not found or not working">>))
    ELSE Returned(PNone)

\* RScriptRunner.__init__: the runner, or the exception it raises
RScriptRunnerInit(scriptExists, version) ==
    IF ~scriptExists
    THEN Raised(Exc("FileNotFoundError", <<"R script not found: ">> \o ScriptPath))
    ELSE LET v == _validate_r_environment(version)
         IN  IF v.k = "raise" THEN v ELSE Returned("Runner")

\* possible_paths of initialize_r_runner as str(p) gives them; the second is
\* the scripts directory four levels above server.py
PossiblePaths ==
    << S("/app/scripts/annotate_genomic_segments.R"),
       <<"<checkout>", "/scripts/annotate_genomic_segments.R">>,
       S("scripts/annotate_genomic_segments.R"),
       S("scripts/annotate_genomic_segments.R") >>

\* the body of initialize_r_runner.  The server of the model is started
\* where only the path relative to the current directory can exist;
\* scriptExists: whether it does.  The except clause logs and raises again.
InitializeRunner(scriptExists, version) ==
    IF ~scriptExists
    THEN Raised(Exc("FileNotFoundError",
                    <<"R script not found in any of these locations: ">>
                    \o <<"[">> \o ReprItems(PossiblePaths) \o <<"]">>))
    ELSE RScriptRunnerInit(scriptExists, version)

\* the value of r_runner after initialize_r_runner: the runner exists only if
\* the script exists and Rscript --version exits with 0
RunnerConstructed(scriptExists, version) ==
    IF InitializeRunner(scriptExists, version).k = "return" THEN "Runner" ELSE "None"

\* main() of server.py up to the point where it serves: it calls
\* initialize_r_runner and returns when that raises.  The version check is
\* run only when the script was found.
initialize_r_runner(scriptExists, version) ==
    /\ pc = "idle"
    /\ startup = Nothing
    /\ r_runner = "None"
    /\ r_runner' = RunnerConstructed(scriptExists, version)
    /\ startup' = [k |-> "main",
                   scriptExists |-> scriptExists,
                   version |-> IF scriptExists THEN version ELSE Nothing,
                   outcome |-> InitializeRunner(scriptExists, version),
                   serving |-> InitializeRunner(scriptExists, version).k = "return"]
    /\ UNCHANGED <<pc, req, job, proc, cmd, launches, env, runres, handled, resp>>
    /\ UNCHANGED <<loopvars, unit, tools, server, jobs>>

\* LaunchesAfter with a second attempt after a failure
LaunchesAfterRetry(n, failed) == IF failed THEN n + 1 ELSE n

\* the number of processes launched for a request once its run has ended:
\* the except clauses only raise (or answer), nothing launches again
LaunchesAfter(n, failed) == n

\* handle_call_tool up to its first suspension: it returns at once, or it has
\* launched the process of run_annotation and awaits it
handle_call_tool(name, arguments, launch, tree, file, imports, summary_read) ==
    /\ pc = "idle"
    /\ req' = [server |-> "mcp", name |-> name, arguments |-> arguments]
    /\ LET h == IF r_runner = "None" THEN Nothing
                ELSE Route(name, arguments, tree, file, imports, summary_read)
       IN  IF h.k = "launch"
           THEN /\ job' = h.job
                /\ cmd' = JobCommand(h.job)
                /\ IF launch.ok
                   THEN /\ pc' = "waiting"
                        /\ proc' = "running"
                        /\ launches' = launches + 1
                        /\ env' = [ev |-> "launched"]
                        /\ runres' = Nothing
                        /\ handled' = Nothing
                        /\ resp' = Nothing
                   ELSE /\ pc' = "done"
                        /\ proc' = "none"
                        /\ launches' = LaunchesAfter(launches, TRUE)
                        /\ env' = [ev |-> "launchfail", exc |-> launch.exc]
                        /\ runres' = RunLaunchFailed(launch.exc, h.job.timeout)
                        /\ handled' = AnnotateFinish(h.job, runres')
                        /\ resp' = Dispatch(name, handled')
           ELSE /\ pc' = "done"
                /\ handled' = h
                /\ resp' = IF r_runner = "None" THEN TextResp(NotInitializedText)
                           ELSE Dispatch(name, h)
                /\ UNCHANGED <<job, proc, cmd, launches, env, runres>>
    /\ UNCHANGED <<r_runner, startup, server, loopvars, unit, tools, jobs>>

\* SimpleMCPServer.handle_request up to its first suspension
handle_request(request, launch, file) ==
    /\ pc = "idle"
    /\ server.k = "return"
    /\ req' = [server |-> "simple", request |-> request]
    /\ LET h == SimpleRoute(request, file)
       IN  IF h.k = "launch"
           THEN /\ job' = [k |-> "simple", args |-> h.job]
                /\ cmd' = SimpleCommand(server.v.r_script_path, h.job)
                /\ IF launch.ok
                   THEN /\ pc' = "waiting"
                        /\ proc' = "running"
                        /\ launches' = launches + 1
                        /\ env' = [ev |-> "launched"]
                        /\ resp' = Nothing
                   ELSE /\ pc' = "done"
                        /\ proc' = "none"
                        /\ launches' = LaunchesAfter(launches, TRUE)
                        /\ env' = [ev |-> "launchfail", exc |-> launch.exc]
                        /\ resp' = SimpleLaunchFailed(launch.exc)
           ELSE /\ pc' = "done"
                /\ resp' = h
                /\ UNCHANGED <<job, proc, cmd, launches, env>>
    /\ UNCHANGED <<r_runner, runres, handled, startup, server, loopvars, unit, tools, jobs>>

\* the process exits by itself, whatever the call that launched it does:
\* its exit status, what it wrote and the files it left are settled
ProcessExits(returncode, out, err, tree) ==
    /\ pc = "waiting"
    /\ proc = "running"
    /\ proc' = "exited"
    /\ env' = [ev |-> "exit", returncode |-> returncode, out |-> out,
               err |-> err, tree |-> tree]
    /\ UNCHANGED <<r_runner, pc, req, job, cmd, launches, runres, handled, resp>>
    /\ UNCHANGED <<startup, server, loopvars, unit, tools, jobs>>

\* communicate() returns after the process has exited and the call goes on
\* to its return.  Under wait_for this happens only before a timeout that
\* is still ahead: a timeout that is not positive cancels communicate()
\* before it runs.
CommunicateReturns ==
    /\ pc = "waiting"
    /\ proc = "exited"
    /\ req.server = "mcp" => job.timeout > 0
    /\ IF req.server = "mcp"
       THEN /\ runres' = RunCompleted(env.returncode, env.out, env.err,
                                      job.output_directory, env.tree, job.timeout)
            /\ handled' = AnnotateFinish(job, runres')
            /\ resp' = Dispatch(req.name, handled')
       ELSE /\ runres' = runres
            /\ handled' = handled
            /\ resp' = SimpleAnnotateFinish(env.returncode, env.out, env.err)
    /\ launches' = LaunchesAfter(launches, IF req.server = "mcp"
                                           THEN runres'.k = "raise"
                                           ELSE "isError" \in DOMAIN resp'.v)
    /\ pc' = "done"
    /\ UNCHANGED <<r_runner, req, job, proc, cmd, env, startup, server, loopvars, unit, tools, jobs>>

\* what run_annotation does to its process when wait_for times out: nothing,
\* the process is neither killed nor waited for
AfterTimeout(p) == p

\* wait_for raises TimeoutError (run_annotation only: _annotate_regions
\* awaits communicate() without a timeout), whether the process still runs
\* or has exited while the call was suspended
TimeoutElapses ==
    /\ pc = "waiting"
    /\ req.server = "mcp"
    /\ proc' = AfterTimeout(proc)
    /\ env' = [ev |-> "timeout"]
    /\ runres' = RunTimedOut(job.timeout)
    /\ handled' = AnnotateFinish(job, runres')
    /\ resp' = Dispatch(req.name, handled')
    /\ launches' = LaunchesAfter(launches, TRUE)
    /\ pc' = "done"
    /\ UNCHANGED <<r_runner, req, job, cmd, startup, server, loopvars, unit, tools, jobs>>

\* a process left running after its request was answered exits on its own
OrphanExits ==
    /\ pc = "done"
    /\ proc = "running"
    /\ proc' = "exited"
    /\ UNCHANGED <<r_runner, pc, req, job, cmd, launches, env, runres, handled, resp>>
    /\ UNCHANGED <<startup, server, loopvars, unit, tools, jobs>>

\* the response has been delivered; the next request may come
NextRequest ==
    /\ pc = "done"
    /\ pc' = "idle"
    /\ req' = NoReq
    /\ job' = Nothing
    /\ proc' = "none"
    /\ cmd' = <<>>
    /\ launches' = 0
    /\ env' = NoEvent
    /\ runres' = Nothing
    /\ handled' = Nothing
    /\ resp' = Nothing
    /\ UNCHANGED <<r_runner, startup, server, loopvars, unit, tools, jobs>>

Next ==
    \/ \E scriptExists \in BOOLEAN, version \in VersionChoices :
          initialize_r_runner(scriptExists, version)
    \/ \E name \in ToolNames :
          \E arguments \in BagsFor(name), launch \in LaunchesFor(name),
             tree \in TreesFor(name), file \in FilesFor(name),
             imports \in ImportsFor(name), summary_read \in SummaryReadsFor(name) :
             handle_call_tool(name, arguments, launch, tree, file, imports, summary_read)
    \/ \E request \in SimpleRequests, launch \in LaunchChoices :
          \E file \in SimpleFilesFor(request) : handle_request(request, launch, file)
    \/ \E returncode \in 0..MaxReturnCode, out \in StdoutChoices,
          err \in StderrChoices, tree \in Trees :
          ProcessExits(returncode, out, err, tree)
    \/ CommunicateReturns
    \/ TimeoutElapses
    \/ OrphanExits
    \/ NextRequest

Spec == Init /\ [][Next]_vars

----------------------------------------------------------------------------
(* simple_server.py: run_stdio_server *)

\* the loop reads at most this many lines before end-of-input
MaxLines == 2

PDict(d) == [t |-> "dict", v |-> d]

\* The JSON documents of the model; a line is a document followed by "\n"
\* (the last line of the input may lack it), and readline returns the empty
\* string at end-of-input.
DocNotJson == <<"not json">>
DocList == <<"[]">>
DocToolsList == <<"{\"method\": \"tools/list\"}">>
DocCallNoParams == <<"{\"method\": \"tools/call\"}">>
DocCallNoArguments == <<"{\"method\": \"tools/call\", \"params\": {\"name\": \"list_supported_genomes\"}}">>
DocAnnotate == <<"{\"method\": \"tools/call\", \"params\": {\"name\": \"annotate_genomic_regions\", \"arguments\": {\"input_file\": \"a.bed\"}}}">>
DocValidate == <<"{\"method\": \"tools/call\", \"params\": {\"name\": \"validate_bed_format\", \"arguments\": {\"file_path\": \"a.bed\"}}}">>
DocUnknownTool == <<"{\"method\": \"tools/call\", \"params\": {\"name\": \"nope\", \"arguments\": {}}}">>
DocPing == <<"{\"method\": \"ping\"}">>
DocEmptyObject == <<"{}">>

EndOfInput == <<>>

Line(doc) == doc \o <<"\n">>

LoopLines ==
    { Line(DocNotJson), Line(<<>>), Line(DocList), Line(DocToolsList),
      Line(DocCallNoParams), Line(DocCallNoArguments), Line(DocAnnotate),
      Line(DocValidate), Line(DocUnknownTool), Line(DocPing), DocPing,
      Line(DocEmptyObject) }

\* str.strip() of a line: the line terminator is dropped
Strip(line) ==
    IF line # <<>> /\ line[Len(line)] = "\n" THEN SubSeq(line, 1, Len(line) - 1)
    ELSE line

JSONDecodeError == Exc("JSONDecodeError", <<"Expecting value: line 1 column 1 (char 0)">>)

\* json.loads on the documents of the model
JsonLoads(doc) ==
    IF doc = DocList THEN Returned(PList(<<>>))
    ELSE IF doc = DocToolsList THEN Returned(PDict("method" :> S("tools/list")))
    ELSE IF doc = DocCallNoParams THEN Returned(PDict("method" :> S("tools/call")))
    ELSE IF doc = DocCallNoArguments
    THEN Returned(PDict("method" :> S("tools/call")
                        @@ "params" :> ("name" :> ToolListGenomes)))
    ELSE IF doc = DocAnnotate
    THEN Returned(PDict("method" :> S("tools/call")
                        @@ "params" :> ("name" :> ToolAnnotate
                                        @@ "arguments" :> ("input_file" :> S("a.bed")))))
    ELSE IF doc = DocValidate
    THEN Returned(PDict("method" :> S("tools/call")
                        @@ "params" :> ("name" :> ToolValidateBed
                                        @@ "arguments" :> ("file_path" :> S("a.bed")))))
    ELSE IF doc = DocUnknownTool
    THEN Returned(PDict("method" :> S("tools/call")
                        @@ "params" :> ("name" :> S("nope") @@ "arguments" :> <<>>)))
    ELSE IF doc = DocPing THEN Returned(PDict("method" :> S("ping")))
    ELSE IF doc = DocEmptyObject THEN Returned(PDict(<<>>))
    ELSE Raised(JSONDecodeError)

\* handle_request on a decoded value: request.get exists only on a dict
HandleRequestValue(value, file) ==
    IF value.t # "dict"
    THEN Raised(Exc("AttributeError",
                    <<"'">> \o S(value.t) \o <<"' object has no attribute 'get'">>))
    ELSE SimpleRoute(value.v, file)

\* ErrorResponse with the code of a JSON-RPC parse error
ErrorResponseParseError(e) == [error |-> [code |-> -32700, message |-> e.msg]]

\* the response of the except clause of the loop
ErrorResponse(e) == [error |-> [code |-> -32603, message |-> e.msg]]

\* json.dumps of a string; the escapes inside an atom (of a line feed, of a
\* quote) are not spelled out
JsonStr(text) == <<"\"">> \o text \o <<"\"">>

\* json.dumps of a tool descriptor
JsonDescriptor(d) ==
    <<"{\"name\": ">> \o JsonStr(d.name)
    \o <<", \"description\": ">> \o JsonStr(d.description)
    \o <<", \"inputSchema\": {\"type\": \"object\", \"properties\": {">>
    \o Join([i \in 1..Len(d.inputSchema.properties) |->
               JsonStr(d.inputSchema.properties[i].key)
               \o <<": {\"type\": ">> \o JsonStr(d.inputSchema.properties[i].type)
               \o <<", \"description\": ">>
               \o JsonStr(d.inputSchema.properties[i].description) \o <<"}">>],
            S(", "))
    \o <<"}, \"required\": [">>
    \o Join([i \in 1..Len(d.inputSchema.required) |-> JsonStr(d.inputSchema.required[i])],
            S(", "))
    \o <<"]}}">>

\* json.dumps of a response of handle_request, as text (the escapes inside
\* the atoms of a text are not spelled out)
JsonDumps(response) ==
    IF "tools" \in DOMAIN response
    THEN <<"{\"tools\": [">>
         \o Join([i \in 1..Len(response.tools) |-> JsonDescriptor(response.tools[i])],
                 S(", "))
         \o <<"]}">>
    ELSE IF "content" \in DOMAIN response
    THEN <<"{\"content\": [{\"type\": \"text\", \"text\": \"">>
         \o response.content[1].text
         \o <<"\"}]">>
         \o (IF "isError" \in DOMAIN response THEN <<", \"isError\": true}">> ELSE <<"}">>)
    ELSE <<"{\"error\": \"">> \o response.error \o <<"\"}">>

\* json.dumps of the error response of the except clause
JsonDumpsError(error_response) ==
    <<"{\"error\": {\"code\": ">> \o IntStr(error_response.error.code)
    \o <<", \"message\": \"">> \o error_response.error.message \o <<"\"}}">>

\* PrintLine writing ahead of the lines already written
PrintLineFirst(out, text) == <<text>> \o out

\* print(text); sys.stdout.flush(): one more line on the output
PrintLine(out, text) == Append(out, text)

\* LoopAfterException leaving the loop
LoopAfterExceptionExits(e) == "closed"

\* the state of the loop after its except clause: the while loop goes on
LoopAfterException(e) == "awaiting"

\* before run_stdio_server is called: no server object, no registry
LoopInit ==
    /\ r_runner = "None"
    /\ pc = "idle"
    /\ req = NoReq
    /\ job = Nothing
    /\ proc = "none"
    /\ cmd = <<>>
    /\ launches = 0
    /\ env = NoEvent
    /\ runres = Nothing
    /\ handled = Nothing
    /\ resp = Nothing
    /\ startup = Nothing
    /\ loop = "off"
    /\ consumed = <<>>
    /\ written = <<>>
    /\ unit = Nothing
    /\ tools = <<>>
    /\ server = Nothing
    /\ jobs = NoJobs

\* the files that may lie at the four possible paths; the second and the
\* third path name one file
ScriptsPresent == { e \in [1..4 -> BOOLEAN] : e[2] = e[3] }

\* run_stdio_server up to its loop: SimpleMCPServer() looks for the script
\* and raises when none of the paths exists, so that nothing is registered
\* and no line is read; otherwise the three tools are registered and the
\* loop awaits its first line
run_stdio_server(exists) ==
    /\ loop = "off"
    /\ server = Nothing
    /\ server' = SimpleMCPServerInit(exists)
    /\ IF server'.k = "raise"
       THEN /\ tools' = tools
            /\ loop' = "off"
       ELSE /\ tools' = StdioRegistry
            /\ loop' = "awaiting"
    /\ UNCHANGED <<r_runner, pc, req, job, proc, cmd, launches, env, runres, handled,
                   resp, startup, consumed, written, unit, jobs>>

\* one iteration of the loop up to its first suspension: readline returned a
\* line, which is decoded and handled; the response is printed, unless the
\* handler launched a process and awaits it
ReadLine(line, launch, file) ==
    /\ loop = "awaiting"
    /\ Len(consumed) < MaxLines
    /\ consumed' = Append(consumed, line)
    /\ LET p == JsonLoads(Strip(line))
           h == IF p.k = "raise" THEN p ELSE HandleRequestValue(p.v, file)
       IN  IF h.k = "raise"
           THEN /\ written' = PrintLine(written, JsonDumpsError(ErrorResponse(h.exc)))
                /\ loop' = LoopAfterException(h.exc)
                /\ cmd' = <<>>
                /\ proc' = "none"
                /\ launches' = 0
                /\ env' = NoEvent
           ELSE IF h.k = "launch"
           THEN /\ cmd' = SimpleCommand(server.v.r_script_path, h.job)
                /\ IF launch.ok
                   THEN /\ loop' = "processing"
                        /\ proc' = "running"
                        /\ launches' = 1
                        /\ env' = [ev |-> "launched"]
                        /\ written' = written
                   ELSE /\ loop' = "awaiting"
                        /\ proc' = "none"
                        /\ launches' = LaunchesAfter(0, TRUE)
                        /\ env' = [ev |-> "launchfail", exc |-> launch.exc]
                        /\ written' = PrintLine(written, JsonDumps(SimpleLaunchFailed(launch.exc).v))
           ELSE /\ written' = PrintLine(written, JsonDumps(h.v))
                /\ loop' = "awaiting"
                /\ cmd' = <<>>
                /\ proc' = "none"
                /\ launches' = 0
                /\ env' = NoEvent
    /\ UNCHANGED <<r_runner, pc, req, job, runres, handled, resp, startup, server, unit, tools, jobs>>

\* the process of the request being handled exits, the loop still suspended
\* in communicate()
LoopProcessExits(returncode, out, err) ==
    /\ loop = "processing"
    /\ proc = "running"
    /\ proc' = "exited"
    /\ env' = [ev |-> "exit", returncode |-> returncode, out |-> out, err |-> err]
    /\ UNCHANGED <<r_runner, pc, req, job, cmd, launches, runres, handled, resp, startup, server,
                   loopvars, unit, tools, jobs>>

\* communicate() returns after the exit; the response is printed and the
\* loop goes back to readline
LoopCommunicateReturns ==
    /\ loop = "processing"
    /\ proc = "exited"
    /\ written' = PrintLine(written,
                            JsonDumps(SimpleAnnotateFinish(env.returncode, env.out,
                                                           env.err).v))
    /\ loop' = "awaiting"
    /\ launches' = LaunchesAfter(launches, env.returncode # 0)
    /\ UNCHANGED <<r_runner, pc, req, job, proc, cmd, env, runres, handled, resp, startup, server,
                   consumed, unit, tools, jobs>>

\* readline returns the empty string: the loop breaks
ReadEOF ==
    /\ loop = "awaiting"
    /\ consumed' = Append(consumed, EndOfInput)
    /\ loop' = "closed"
    /\ UNCHANGED <<r_runner, pc, req, job, proc, cmd, launches, env, runres, handled,
                   resp, startup, server, written, unit, tools, jobs>>

LoopNext ==
    \/ \E exists \in ScriptsPresent : run_stdio_server(exists)
    \/ \E line \in LoopLines, launch \in LaunchChoices :
          \E file \in (IF Strip(line) = DocValidate THEN BedFiles ELSE { NoFile }) :
             ReadLine(line, launch, file)
    \/ \E returncode \in 0..MaxReturnCode, out \in StdoutChoices, err \in StderrChoices :
          LoopProcessExits(returncode, out, err)
    \/ LoopCommunicateReturns
    \/ ReadEOF

LoopSpec == LoopInit /\ [][LoopNext]_vars

----------------------------------------------------------------------------
(* Direct calls of the pure helpers of RScriptRunner *)

\* a scanned directory holds at most this many files (the listed directory
\* of the test apart)
MaxFiles == 2

\* Path.name: the last component of a path
LastSlash(rel) ==
    LET idx == { i \in 1..Len(rel) : rel[i] = "/" }
    IN  IF idx = {} THEN 0 ELSE CHOOSE i \in idx : \A j \in idx : j <= i

PathName(rel) == SubSeq(rel, LastSlash(rel) + 1, Len(rel))

\* the atoms that are file extensions (a dot and what follows it)
ExtAtoms == { ".tsv", ".TSV", ".png", ".pdf", ".svg", ".txt", ".gz" }

\* Path.suffix: the last extension of the name; a name that is only an
\* extension (a hidden file) has none
PathSuffix(name) ==
    IF Len(name) > 1 /\ name[Len(name)] \in ExtAtoms THEN name[Len(name)] ELSE ""

\* the file found at a relative path
FileAt(rel) == File(rel, PathName(rel), PathSuffix(PathName(rel)))

ScanPaths ==
    { <<"s1", "_", "annotated", ".tsv">>,
      <<"s1", "_", "summary", ".tsv">>,
      <<"combined", "_", "annotations", ".tsv">>,
      <<"combined", "_", "summary", ".tsv">>,
      <<"Summary", ".tsv">>,
      <<"summary", "/", "s1", ".tsv">>,
      <<"plots", "/", "s1", ".png">>,
      <<"plot", ".pdf">>,
      <<"visualization", ".svg">>,
      <<"readme", ".txt">>,
      <<"s1", ".TSV">>,
      <<".tsv">>,
      <<".png">>,
      <<"s1", ".tsv", ".gz">> }

\* the directory of test_successful_output_file_scanning (its .tsv files),
\* in the order the test creates them
ListedFiles ==
    << FileAt(<<"sample1", "_", "annotated", ".tsv">>),
       FileAt(<<"sample2", "_", "annotated", ".tsv">>),
       FileAt(<<"sample1", "_", "summary", ".tsv">>),
       FileAt(<<"combined", "_", "annotations", ".tsv">>),
       FileAt(<<"combined", "_", "summary", ".tsv">>) >>

\* the sequences of at most n distinct files, in any traversal order
RECURSIVE FileSeqs(_)
FileSeqs(n) ==
    IF n = 0 THEN { <<>> }
    ELSE FileSeqs(n - 1)
         \cup { Append(t, FileAt(r)) :
                  t \in { u \in FileSeqs(n - 1) : Len(u) = n - 1 },
                  r \in ScanPaths }

Distinct(t) == \A i, j \in 1..Len(t) : i # j => t[i] # t[j]

\* the orders in which rglob may meet the files of a directory: any
Orders(files) ==
    { [i \in 1..Len(files) |-> files[p[i]]] :
        p \in { q \in [1..Len(files) -> 1..Len(files)] :
                  \A i, j \in 1..Len(files) : i # j => q[i] # q[j] } }

ScanTrees ==
    { NoDir }
    \cup { Dir(t) : t \in Orders(ListedFiles) }
    \cup { Dir(t) : t \in { u \in FileSeqs(MaxFiles) : Distinct(u) } }

BuildInputFiles ==
    { PStr(S("a.bed")), PStr(<<>>), PList(<<>>), PList(<< S("a.bed") >>),
      PList(<< S("a.bed"), S("b.bed") >>) }

BuildSampleNames == { PNone, PStr(<<>>), PStr(S("s1")) }

BuildPlotFormats ==
    { <<>>, << S("svg") >>, << S("png"), S("pdf") >>, << S("png"), S("pdf"), S("svg") >> }

BuildPatterns == { S("*.bed"), S("*.txt") }

\* runner._build_command_args(...) called directly
CallBuildCommandArgs(input_files, genome_build, output_directory, sample_name, include_cpg, include_genic, plot_formats, combine_analysis, pattern) ==
    /\ unit = Nothing
    /\ unit' = [k |-> "call", fn |-> "_build_command_args",
                input_files |-> input_files, genome_build |-> genome_build,
                output_directory |-> output_directory, sample_name |-> sample_name,
                include_cpg |-> include_cpg, include_genic |-> include_genic,
                plot_formats |-> plot_formats, combine_analysis |-> combine_analysis,
                pattern |-> pattern,
                result |-> _build_command_args(input_files, genome_build, output_directory, sample_name, include_cpg, include_genic, plot_formats, combine_analysis, pattern)]
    /\ UNCHANGED <<r_runner, pc, req, job, proc, cmd, launches, env, runres, handled,
                   resp, startup, server, loopvars, tools, jobs>>

\* runner._scan_output_files(output_dir) called directly
CallScanOutputFiles(output_dir) ==
    /\ unit = Nothing
    /\ unit' = [k |-> "call", fn |-> "_scan_output_files", output_dir |-> output_dir,
                result |-> _scan_output_files(output_dir)]
    /\ UNCHANGED <<r_runner, pc, req, job, proc, cmd, launches, env, runres, handled,
                   resp, startup, server, loopvars, tools, jobs>>

\* handle_get_annotation_summary(arguments) called directly on a directory
CallGetAnnotationSummary(output_dir, summary_read) ==
    /\ unit = Nothing
    /\ unit' = [k |-> "call", fn |-> "handle_get_annotation_summary",
                output_dir |-> output_dir, summary_read |-> summary_read,
                result |-> handle_get_annotation_summary(
                               "results_directory" :> S("/out"), output_dir, summary_read)]
    /\ UNCHANGED <<r_runner, pc, req, job, proc, cmd, launches, env, runres, handled,
                   resp, startup, server, loopvars, tools, jobs>>

\* r_runner.run_annotation where r_runner is None
NoRunnerError ==
    Exc("AttributeError", <<"'NoneType' object has no attribute 'run_annotation'">>)

\* handle_annotate_genomic_regions up to its call of run_annotation: what
\* it returns or raises at once, or the job to run
handle_annotate_genomic_regions(arguments, runner) ==
    LET s == AnnotateStart(arguments)
    IN  IF s.k # "launch" THEN s
        ELSE IF runner = "None" THEN Raised(NoRunnerError)
        ELSE s

\* the argument bags of the direct calls: the required fields are present
DirectBags ==
    OptionBags
    \cup { b \in AnnotateBags :
             /\ RequiredKeys \subseteq DOMAIN b
             /\ b["input_files"] = PStr(S("a.bed"))
             /\ "sample_name" \notin DOMAIN b
             /\ "combine_analysis" \notin DOMAIN b }

\* the record of a direct call of handle_annotate_genomic_regions that has
\* returned or raised
AnnotateReturned(arguments, runner, result) ==
    [k |-> "call", fn |-> "handle_annotate_genomic_regions",
     arguments |-> arguments, runner |-> runner, result |-> result]

\* handle_annotate_genomic_regions(arguments) called directly, with the
\* module's r_runner set to runner beforehand, up to its first suspension:
\* it has returned or raised, or run_annotation has launched the process and
\* awaits it
CallHandleAnnotate(arguments, runner, launch) ==
    /\ unit = Nothing
    /\ r_runner' = runner
    /\ LET h == handle_annotate_genomic_regions(arguments, runner)
       IN  IF h.k = "launch"
           THEN /\ job' = h.job
                /\ cmd' = JobCommand(h.job)
                /\ IF launch.ok
                   THEN /\ unit' = [k |-> "pending",
                                    fn |-> "handle_annotate_genomic_regions",
                                    arguments |-> arguments, runner |-> runner]
                        /\ proc' = "running"
                        /\ launches' = launches + 1
                        /\ env' = [ev |-> "launched"]
                   ELSE /\ unit' = AnnotateReturned(arguments, runner,
                                       AnnotateFinish(h.job,
                                           RunLaunchFailed(launch.exc, h.job.timeout)))
                        /\ proc' = "none"
                        /\ launches' = LaunchesAfter(launches, TRUE)
                        /\ env' = [ev |-> "launchfail", exc |-> launch.exc]
           ELSE /\ unit' = AnnotateReturned(arguments, runner, h)
                /\ UNCHANGED <<job, proc, cmd, launches, env>>
    /\ UNCHANGED <<pc, req, runres, handled, resp, startup, server, loopvars, tools, jobs>>

\* A pathlib.Path: whether it is absolute, and its components.  Path(".")
\* is the relative path without components, Path("/") the absolute one.
AbsPath(parts) == [abs |-> TRUE, parts |-> parts]
RelPath(parts) == [abs |-> FALSE, parts |-> parts]

\* Path.parent: the root and "." are their own parents
PathParent(p) ==
    IF p.parts = <<>> THEN p
    ELSE [p EXCEPT !.parts = SubSeq(p.parts, 1, Len(p.parts) - 1)]

\* the directory a path denotes for a process whose current directory is cwd
Resolve(cwd, p) == IF p.abs THEN p ELSE AbsPath(cwd.parts \o p.parts)

\* the cwd argument of create_subprocess_exec
LaunchCwd(script_path) == PathParent(PathParent(PathParent(script_path)))

\* the script paths initialize_r_runner may find: the Docker path, a
\* development checkout, and the path relative to the current directory
ScriptPaths ==
    { AbsPath(<<"app", "scripts", "annotate_genomic_segments.R">>),
      AbsPath(<<"home", "dev", "MCPs", "scripts", "annotate_genomic_segments.R">>),
      RelPath(<<"scripts", "annotate_genomic_segments.R">>) }

\* the current directory of the server
ServerCwds == { AbsPath(<<"app">>), AbsPath(<<"home", "dev", "MCPs">>), AbsPath(<<>>) }

OutputDirectories == { RelPath(<<"out">>), RelPath(<<"results", "run1">>), AbsPath(<<"out">>) }

\* str(path)
PathText(p) ==
    IF p.parts = <<>> THEN (IF p.abs THEN <<"/">> ELSE <<".">>)
    ELSE (IF p.abs THEN <<"/">> ELSE <<>>)
         \o Join([i \in 1..Len(p.parts) |-> <<p.parts[i]>>], S("/"))

\* the record of a direct call of run_annotation that has returned (the
\* results were scanned) or raised (they were not)
PathsReturned(u, scanned) ==
    [k |-> "call", fn |-> "run_annotation",
     script_path |-> u.script_path, server_cwd |-> u.server_cwd,
     output_directory |-> u.output_directory,
     process_cwd |-> u.process_cwd, process_output |-> u.process_output,
     scanned |-> scanned,
     scan_output |-> IF scanned THEN Resolve(u.server_cwd, u.output_directory)
                     ELSE Nothing]

\* run_annotation(input_files='a.bed', genome_build='hg38', output_directory)
\* of a runner built on script_path, called directly, up to its first
\* suspension: the process is launched in the directory three levels above
\* the script, where it resolves its output directory; when the launch
\* raises the call raises and scans nothing
CallRunAnnotationPaths(script_path, server_cwd, output_directory, launch) ==
    /\ unit = Nothing
    /\ cmd' = [_build_command_args(PStr(S("a.bed")), S("hg38"),
                                   PathText(output_directory), PNone, TRUE, TRUE,
                                   DefaultPlotFormats, FALSE, DefaultPattern)
                 EXCEPT ![2] = PathText(script_path)]
    /\ LET u == [k |-> "pending", fn |-> "run_annotation",
                 script_path |-> script_path, server_cwd |-> server_cwd,
                 output_directory |-> output_directory,
                 process_cwd |-> Resolve(server_cwd, LaunchCwd(script_path)),
                 process_output |-> Resolve(Resolve(server_cwd, LaunchCwd(script_path)),
                                            output_directory)]
       IN  IF launch.ok
           THEN /\ unit' = u
                /\ proc' = "running"
                /\ launches' = launches + 1
                /\ env' = [ev |-> "launched"]
           ELSE /\ unit' = PathsReturned(u, FALSE)
                /\ proc' = "none"
                /\ launches' = LaunchesAfter(launches, TRUE)
                /\ env' = [ev |-> "launchfail", exc |-> launch.exc]
    /\ UNCHANGED <<r_runner, pc, req, job, runres, handled, resp, startup, server, loopvars,
                   tools, jobs>>

\* the process of the direct call exits while the call is suspended
UnitProcessExits(returncode, out, err, tree) ==
    /\ unit.k = "pending"
    /\ proc = "running"
    /\ proc' = "exited"
    /\ env' = [ev |-> "exit", returncode |-> returncode, out |-> out,
               err |-> err, tree |-> tree]
    /\ UNCHANGED <<r_runner, pc, req, job, cmd, launches, runres, handled, resp,
                   startup, server, loopvars, unit, tools, jobs>>

\* timeout of the suspended direct call: run_annotation's default where it
\* is called without one
UnitTimeout == IF unit.fn = "run_annotation" THEN 300 ELSE job.timeout

\* communicate() of the direct call returns: run_annotation decodes the
\* streams and, after an exit with 0, scans Path(output_directory) in the
\* current directory of the server
UnitCommunicateReturns ==
    /\ unit.k = "pending"
    /\ proc = "exited"
    /\ UnitTimeout > 0
    /\ unit' = IF unit.fn = "run_annotation"
               THEN PathsReturned(unit, /\ env.returncode = 0
                                        /\ Decode(env.out).k = "return"
                                        /\ Decode(env.err).k = "return")
               ELSE AnnotateReturned(unit.arguments, unit.runner,
                        AnnotateFinish(job,
                            RunCompleted(env.returncode, env.out, env.err,
                                         job.output_directory, env.tree, job.timeout)))
    /\ UNCHANGED <<r_runner, pc, req, job, proc, cmd, launches, env, runres, handled,
                   resp, startup, server, loopvars, tools, jobs>>

\* wait_for of the direct call raises TimeoutError; the process is left as
\* it is
UnitTimeoutElapses ==
    /\ unit.k = "pending"
    /\ proc' = AfterTimeout(proc)
    /\ env' = [ev |-> "timeout"]
    /\ unit' = IF unit.fn = "run_annotation"
               THEN PathsReturned(unit, FALSE)
               ELSE AnnotateReturned(unit.arguments, unit.runner,
                        AnnotateFinish(job, RunTimedOut(job.timeout)))
    /\ UNCHANGED <<r_runner, pc, req, job, cmd, launches, runres, handled, resp,
                   startup, server, loopvars, tools, jobs>>

\* the process a timed-out direct call left running exits by itself
UnitOrphanExits ==
    /\ unit.k = "call"
    /\ proc = "running"
    /\ proc' = "exited"
    /\ UNCHANGED <<r_runner, pc, req, job, cmd, launches, env, runres, handled, resp,
                   startup, server, loopvars, unit, tools, jobs>>

UnitNext ==
    \/ \E input_files \in BuildInputFiles, genome_build \in { S("hg38"), S("mm10") },
          output_directory \in { S("/out"), <<"/out", "/">> },
          sample_name \in BuildSampleNames, include_cpg \in BOOLEAN,
          include_genic \in BOOLEAN, plot_formats \in BuildPlotFormats,
          combine_analysis \in BOOLEAN, pattern \in BuildPatterns :
          CallBuildCommandArgs(input_files, genome_build, output_directory, sample_name, include_cpg, include_genic, plot_formats, combine_analysis, pattern)
    \/ \E output_dir \in ScanTrees : CallScanOutputFiles(output_dir)
    \/ \E output_dir \in ScanTrees, summary_read \in SummaryReads :
          CallGetAnnotationSummary(output_dir, summary_read)
    \/ \E arguments \in DirectBags, runner \in {"None", "Runner"},
          launch \in LaunchChoices :
          CallHandleAnnotate(arguments, runner, launch)
    \/ \E script_path \in ScriptPaths, server_cwd \in ServerCwds,
          output_directory \in OutputDirectories, launch \in LaunchChoices :
          CallRunAnnotationPaths(script_path, server_cwd, output_directory, launch)
    \/ \E returncode \in 0..MaxReturnCode, out \in StdoutChoices,
          err \in StderrChoices, tree \in Trees :
          UnitProcessExits(returncode, out, err, tree)
    \/ UnitCommunicateReturns
    \/ UnitTimeoutElapses
    \/ UnitOrphanExits

UnitSpec == Init /\ [][UnitNext]_vars

----------------------------------------------------------------------------
(* simple_server.py: the tool registry *)

\* the registry holds at most this many tools
MaxTools == 2

RegistryNames == { ToolAnnotate, ToolListGenomes, S("custom_tool") }

RegistryDescriptions == { <<"first description">>, <<"second description">> }

RegistryParameters == { <<>>, << Param("file_path", "string", "Path to BED file to validate") >> }

\* server = SimpleMCPServer(): the registry is empty, and no server exists
\* when the constructor raises
SimpleMCPServer(exists) ==
    /\ server = Nothing
    /\ server' = SimpleMCPServerInit(exists)
    /\ tools' = <<>>
    /\ UNCHANGED <<r_runner, pc, req, job, proc, cmd, launches, env, runres, handled,
                   resp, startup, loopvars, unit, jobs>>

\* SimpleMCPServer.register_tool
register_tool(name, description, parameters) ==
    /\ pc = "idle"
    /\ server.k = "return"
    /\ Len(DictSet(tools, name, Descriptor(name, description, parameters))) <= MaxTools
    /\ tools' = DictSet(tools, name, Descriptor(name, description, parameters))
    /\ UNCHANGED <<r_runner, pc, req, job, proc, cmd, launches, env, runres, handled,
                   resp, startup, server, loopvars, unit, jobs>>

CallRequest(name, arguments) ==
    ("method" :> S("tools/call")) @@ ("params" :> (("name" :> name) @@ ("arguments" :> arguments)))

\* the requests sent to a server whose registry varies
RegistryRequests ==
    { "method" :> S("tools/list"), "method" :> S("resources/list"), <<>>,
      ("method" :> S("tools/call")) @@ ("params" :> ("name" :> ToolListGenomes)) }
    \cup { CallRequest(name, <<>>) :
             name \in RegistryNames \cup { ToolValidateBed, S("unknown_tool") } }
    \cup { CallRequest(ToolValidateBed, "file_path" :> S("a.bed")),
           CallRequest(ToolAnnotate, "input_file" :> S("a.bed")) }

\* before SimpleMCPServer() is called
RegistryInit ==
    /\ r_runner = "None"
    /\ pc = "idle"
    /\ req = NoReq
    /\ job = Nothing
    /\ proc = "none"
    /\ cmd = <<>>
    /\ launches = 0
    /\ env = NoEvent
    /\ runres = Nothing
    /\ handled = Nothing
    /\ resp = Nothing
    /\ startup = Nothing
    /\ loop = "off"
    /\ consumed = <<>>
    /\ written = <<>>
    /\ unit = Nothing
    /\ tools = <<>>
    /\ server = Nothing
    /\ jobs = NoJobs

RegistryNext ==
    \/ \E exists \in ScriptsPresent : SimpleMCPServer(exists)
    \/ \E name \in RegistryNames, description \in RegistryDescriptions,
          parameters \in RegistryParameters :
          register_tool(name, description, parameters)
    \/ \E request \in RegistryRequests, launch \in LaunchChoices :
          \E file \in SimpleFilesFor(request) : handle_request(request, launch, file)
    \/ \E returncode \in 0..MaxReturnCode, out \in StdoutChoices, err \in StderrChoices :
          ProcessExits(returncode, out, err, Dir(<<>>))
    \/ CommunicateReturns
    \/ NextRequest

RegistrySpec == RegistryInit /\ [][RegistryNext]_vars

----------------------------------------------------------------------------
(* server.py: concurrent calls of handle_call_tool *)

\* the annotate requests of the concurrent tasks
ConcBags ==
    LET base == ("input_files" :> PStr(S("a.bed"))) @@ ("genome_build" :> S("hg38"))
                @@ ("output_directory" :> S("/out"))
    IN  { base, [base EXCEPT !["genome_build"] = S("hg37")] }
        \cup { base @@ ("timeout" :> t) : t \in 0..MaxTimeout }

\* the locals of a call of handle_call_tool('annotate_genomic_regions', ...)
\* at its first suspension, or at its return when it does not suspend
JobStarted(runner, arguments, launch) ==
    LET h == AnnotateStart(arguments)
    IN  IF runner = "None"
        THEN [IdleJob EXCEPT !.pc = "done", !.resp = TextResp(NotInitializedText)]
        ELSE IF h.k # "launch"
        THEN [IdleJob EXCEPT !.pc = "done", !.resp = Dispatch(ToolAnnotate, h)]
        ELSE IF launch.ok
        THEN [pc |-> "waiting", job |-> h.job, proc |-> "running",
              env |-> [ev |-> "launched"], runres |-> Nothing, resp |-> Nothing]
        ELSE [pc |-> "done", job |-> h.job, proc |-> "none",
              env |-> [ev |-> "launchfail", exc |-> launch.exc],
              runres |-> RunLaunchFailed(launch.exc, h.job.timeout),
              resp |-> Dispatch(ToolAnnotate,
                                AnnotateFinish(h.job,
                                               RunLaunchFailed(launch.exc, h.job.timeout)))]

\* the locals of a call whose process has exited while the call is suspended
JobProcessExited(j, returncode, out, err, tree) ==
    [j EXCEPT !.proc = "exited",
              !.env = [ev |-> "exit", returncode |-> returncode, out |-> out,
                       err |-> err, tree |-> tree]]

\* the locals of a call whose communicate() has returned
JobExited(j) ==
    LET r == RunCompleted(j.env.returncode, j.env.out, j.env.err,
                          j.job.output_directory, j.env.tree, j.job.timeout)
    IN  [j EXCEPT !.pc = "done",
                  !.runres = r,
                  !.resp = Dispatch(ToolAnnotate, AnnotateFinish(j.job, r))]

\* the locals of a call whose wait_for has raised TimeoutError
JobTimedOut(j) ==
    [j EXCEPT !.pc = "done", !.proc = AfterTimeout(j.proc),
              !.env = [ev |-> "timeout"],
              !.runres = RunTimedOut(j.job.timeout),
              !.resp = Dispatch(ToolAnnotate,
                                AnnotateFinish(j.job, RunTimedOut(j.job.timeout)))]

\* JobsAfterTimeout with one deadline shared by the calls in flight: every
\* waiting call times out together
JobsAfterTimeoutShared(js, id) ==
    [i \in DOMAIN js |-> IF js[i].pc = "waiting" THEN JobTimedOut(js[i]) ELSE js[i]]

\* the tasks after the wait_for of one call has timed out: wait_for wraps
\* the communicate() of that call's own process and nothing else
JobsAfterTimeout(js, id) == [js EXCEPT ![id] = JobTimedOut(js[id])]

ConcStart(id, arguments, launch) ==
    /\ jobs[id].pc = "idle"
    /\ jobs' = [jobs EXCEPT ![id] = JobStarted(r_runner, arguments, launch)]
    /\ UNCHANGED <<r_runner, pc, req, job, proc, cmd, launches, env, runres, handled,
                   resp, startup, server, loopvars, unit, tools>>

\* the process of a call exits by itself
ConcProcessExits(id, returncode, out, err, tree) ==
    /\ jobs[id].pc = "waiting"
    /\ jobs[id].proc = "running"
    /\ jobs' = [jobs EXCEPT ![id] = JobProcessExited(jobs[id], returncode, out, err, tree)]
    /\ UNCHANGED <<r_runner, pc, req, job, proc, cmd, launches, env, runres, handled,
                   resp, startup, server, loopvars, unit, tools>>

\* the call resumes from communicate(); a timeout that is not positive
\* never lets it
ConcCommunicateReturns(id) ==
    /\ jobs[id].pc = "waiting"
    /\ jobs[id].proc = "exited"
    /\ jobs[id].job.timeout > 0
    /\ jobs' = [jobs EXCEPT ![id] = JobExited(jobs[id])]
    /\ UNCHANGED <<r_runner, pc, req, job, proc, cmd, launches, env, runres, handled,
                   resp, startup, server, loopvars, unit, tools>>

\* the wait_for of a call raises TimeoutError, its process running or gone
ConcTimeoutElapses(id) ==
    /\ jobs[id].pc = "waiting"
    /\ jobs' = JobsAfterTimeout(jobs, id)
    /\ UNCHANGED <<r_runner, pc, req, job, proc, cmd, launches, env, runres, handled,
                   resp, startup, server, loopvars, unit, tools>>

\* the process a timed-out call left running exits by itself
ConcOrphanExits(id) ==
    /\ jobs[id].pc = "done"
    /\ jobs[id].proc = "running"
    /\ jobs' = [jobs EXCEPT ![id].proc = "exited"]
    /\ UNCHANGED <<r_runner, pc, req, job, proc, cmd, launches, env, runres, handled,
                   resp, startup, server, loopvars, unit, tools>>

\* the response of a call has been delivered; its task ends
ConcReturn(id) ==
    /\ jobs[id].pc = "done"
    /\ jobs' = [jobs EXCEPT ![id] = IdleJob]
    /\ UNCHANGED <<r_runner, pc, req, job, proc, cmd, launches, env, runres, handled,
                   resp, startup, server, loopvars, unit, tools>>

\* the server after main() has initialized the runner
ConcInit ==
    /\ r_runner = "Runner"
    /\ pc = "idle"
    /\ req = NoReq
    /\ job = Nothing
    /\ proc = "none"
    /\ cmd = <<>>
    /\ launches = 0
    /\ env = NoEvent
    /\ runres = Nothing
    /\ handled = Nothing
    /\ resp = Nothing
    /\ startup = [k |-> "main", scriptExists |-> TRUE, version |-> VersionExit(0),
                  outcome |-> InitializeRunner(TRUE, VersionExit(0)), serving |-> TRUE]
    /\ loop = "off"
    /\ consumed = <<>>
    /\ written = <<>>
    /\ unit = Nothing
    /\ tools = StdioRegistry
    /\ server = ServerHere
    /\ jobs = NoJobs

ConcNext ==
    \/ \E id \in JobIds, arguments \in ConcBags, launch \in LaunchChoices :
          ConcStart(id, arguments, launch)
    \/ \E id \in JobIds, returncode \in 0..MaxReturnCode :
          ConcProcessExits(id, returncode, <<65>>, <<66>>, Dir(<<>>))
    \/ \E id \in JobIds : ConcCommunicateReturns(id)
    \/ \E id \in JobIds : ConcTimeoutElapses(id)
    \/ \E id \in JobIds : ConcOrphanExits(id)
    \/ \E id \in JobIds : ConcReturn(id)

ConcSpec == ConcInit /\ [][ConcNext]_vars

----------------------------------------------------------------------------
(* Properties *)

McpDone == pc = "done" /\ req.server = "mcp"

SimpleDone == pc = "done" /\ req.server = "simple"

AnnotateCall == req.server = "mcp" /\ req.name = ToolAnnotate

MissingRequired == AnnotateCall /\ RequiredKeys \ DOMAIN req.arguments # {}

\* the response of handle_call_tool is a list of exactly one text item
OneText == resp.k = "return" /\ Len(resp.v) = 1 /\ resp.v[1].type = "text"

\* the exception raised inside the tool handler of the call: the one that
\* left the handler or, when the handler caught it itself, the failure that
\* run_annotation raised
HandlerException == IF handled.k = "raise" THEN handled.exc ELSE runres.exc

\* C1: every call of handle_call_tool returns one text item and never raises;
\* an exception raised inside the tool handler, a failure of the process
\* supervision included, is returned as the text
\* 'Error executing <name>: <message>'.
C1_Claim ==
    McpDone =>
        /\ OneText
        /\ (handled.k = "raise" \/ runres.k = "raise") =>
              resp.v[1].text
                = <<"Error executing ">> \o req.name \o <<": ">> \o HandlerException.msg

\* C2: annotate_genomic_regions called without its required arguments raises
\* KeyError to the caller of handle_call_tool.
C2_Claim ==
    (McpDone /\ MissingRequired) =>
        (resp.k = "raise" /\ resp.exc.type = "KeyError")

McpRegistered ==
    { ToolAnnotate, ToolListGenomes, ToolValidateBed, ToolSummary, ToolComparison }

SimpleRegistered == { SimpleTools[i] : i \in 1..Len(SimpleTools) }

\* a tools/call request of the simple server that names a tool
SimpleNamedCall ==
    /\ req.server = "simple"
    /\ "method" \in DOMAIN req.request
    /\ req.request["method"] = S("tools/call")
    /\ "params" \in DOMAIN req.request
    /\ "name" \in DOMAIN req.request["params"]

SimpleCallName == req.request["params"]["name"]

SimpleHasArguments == "arguments" \in DOMAIN req.request["params"]

\* C3: a name that is not registered is answered, without raising, by a text
\* response 'Unknown tool: <name>' and not by a protocol-level error.
C3_Claim ==
    /\ (McpDone /\ req.name \notin McpRegistered) =>
          (OneText /\ resp.v[1].text = <<"Unknown tool: ">> \o req.name)
    /\ (SimpleDone /\ SimpleNamedCall /\ SimpleCallName \notin SimpleRegistered) =>
          /\ resp.k = "return"
          /\ "content" \in DOMAIN resp.v
          /\ resp.v.content[1].text = <<"Unknown tool: ">> \o SimpleCallName

\* an annotate request that names a genome build outside the registry
UnsupportedGenomeRequest ==
    IF req.server = "mcp"
    THEN /\ req.name = ToolAnnotate
         /\ "genome_build" \in DOMAIN req.arguments
         /\ ~is_supported(req.arguments["genome_build"])
    ELSE /\ req.server = "simple"
         /\ SimpleNamedCall
         /\ SimpleCallName = ToolAnnotate
         /\ SimpleHasArguments
         /\ "genome_build" \in DOMAIN req.request["params"]["arguments"]
         /\ ~is_supported(req.request["params"]["arguments"]["genome_build"])

\* C4: an annotate request with an unregistered genome identifier launches no
\* process, and the handler that checks the genome answers 'Unsupported
\* genome build' with the identifier.
C4_Claim ==
    UnsupportedGenomeRequest =>
        /\ cmd = <<>>
        /\ launches = 0
        /\ proc = "none"
        /\ (McpDone /\ r_runner = "Runner" /\ ~MissingRequired) =>
              /\ OneText
              /\ Contains(resp.v[1].text, S("Error: Unsupported genome build '"))
              /\ Contains(resp.v[1].text, req.arguments["genome_build"])

\* C5: an annotate request whose input files are the empty list or the empty
\* string launches no process.
C5_Claim ==
    (/\ AnnotateCall
     /\ "input_files" \in DOMAIN req.arguments
     /\ req.arguments["input_files"].v = <<>>) =>
        /\ cmd = <<>>
        /\ launches = 0
        /\ proc = "none"

\* C6: once run_annotation has reported the timeout, the process no longer
\* runs, and the caller got a failure.
C6_Claim ==
    (McpDone /\ env.ev = "timeout") => (proc # "running" /\ runres.k = "raise")

\* C7: a request that waits for its process can always be ended by its
\* timeout, whether or not the process ever exits.
C7_Claim == pc = "waiting" => ENABLED TimeoutElapses

\* C8: run_annotation reports a timeout as 'R script execution timed out
\* after <timeout> seconds' and nothing else so: a failure carries the
\* timed-out text exactly when the timeout elapsed, and never together with
\* the text of a non-zero exit.
C8_TimeoutDistinctFromExitFailure ==
    (McpDone /\ runres.k = "raise") =>
        /\ env.ev = "timeout" =>
              /\ runres.exc.msg = <<"R script execution timed out after ",
                                    ToString(job.timeout), " seconds">>
              /\ ~Contains(runres.exc.msg, S("R script failed with return code "))
        /\ env.ev # "timeout" =>
              Head(runres.exc.msg) # "R script execution timed out after "
        /\ (env.ev = "exit" /\ env.returncode # 0) =>
              Head(runres.exc.msg) = "R script execution failed: "

C8_Witness ==
    /\ McpDone
    /\ env.ev = "timeout"
    /\ runres.k = "raise"
    /\ Contains(resp.v[1].text, S("R script execution timed out after "))

\* C9: after a non-zero exit the response carries the return code and the
\* whole text the process wrote to standard error.
C9_Claim ==
    (/\ McpDone
     /\ env.ev = "exit"
     /\ env.returncode # 0
     /\ env.err # <<>>
     /\ Decode(env.err).k = "return") =>
        /\ OneText
        /\ Contains(resp.v[1].text,
                    <<"R script failed with return code ", ToString(env.returncode)>>)
        /\ Contains(resp.v[1].text, Decode(env.err).v)

\* C10: run_annotation returns a result exactly when the process exited with
\* status 0, and raises RScriptError otherwise.
C10_Claim ==
    (McpDone /\ env.ev \in {"exit", "timeout", "launchfail"}) =>
        /\ runres.k = "return" <=> (env.ev = "exit" /\ env.returncode = 0)
        /\ runres.k # "return" => (runres.k = "raise" /\ runres.exc.type = "RScriptError")

\* C11: one request launches at most one process: a request whose process
\* ran (and exited, or timed out) launched exactly one, a request whose launch
\* failed or that was answered without a run launched none, and no failure is
\* followed by another launch.
C11_OneLaunchPerRequest ==
    /\ launches <= 1
    /\ env.ev \in {"launched", "exit", "timeout"} => launches = 1
    /\ env.ev \in {"none", "launchfail"} => launches = 0
    /\ proc = "none" <=> launches = 0

C11_Witness ==
    /\ pc = "done"
    /\ launches = 1
    /\ env.ev \in {"exit", "timeout"}
    /\ (env.ev = "exit" => env.returncode # 0)

\* C12: the runner exists only if main() found the script and `Rscript
\* --version` exited with 0; otherwise initialization raised FileNotFoundError
\* or REnvironmentError and main() returned without serving; while the runner
\* is unset handle_call_tool returns the 'R script runner not initialized'
\* text, runs no handler and launches nothing.
C12_Claim ==
    /\ r_runner = "Runner" =>
          /\ startup.k = "main"
          /\ startup.scriptExists
          /\ startup.version = [k |-> "exit", code |-> 0]
          /\ startup.serving
    /\ (startup.k = "main" /\ r_runner = "None") =>
          /\ ~startup.serving
          /\ startup.outcome.k = "raise"
          /\ startup.outcome.exc.type \in {"FileNotFoundError", "REnvironmentError"}
          /\ ~startup.scriptExists \/ startup.version # [k |-> "exit", code |-> 0]
    /\ (McpDone /\ r_runner = "None") =>
          /\ OneText
          /\ resp.v[1].text
               = <<"Error: R script runner not initialized. Please check R environment setup.">>
          /\ handled = Nothing
          /\ cmd = <<>>
          /\ launches = 0
          /\ proc = "none"

\* the lines whose handling raises: no JSON, JSON that is not an object, and
\* a tools/call without params or without arguments
MalformedLines ==
    { Line(DocNotJson), Line(<<>>), Line(DocList), Line(DocCallNoParams),
      Line(DocCallNoArguments) }

MalformedMessage(line) ==
    IF line = Line(DocList) THEN <<"'", "list", "' object has no attribute 'get'">>
    ELSE IF line = Line(DocCallNoParams) THEN <<"'", "params", "'">>
    ELSE IF line = Line(DocCallNoArguments) THEN <<"'", "arguments", "'">>
    ELSE <<"Expecting value: line 1 column 1 (char 0)">>

\* the text of the protocol-level error response with code -32603
ErrorLine(message) ==
    <<"{\"error\": {\"code\": ", "-32603", ", \"message\": \"">> \o message \o <<"\"}}">>

\* C13: a line that cannot be turned into a request is answered by one
\* response {"error": {"code": -32603, "message": <the exception's text>}},
\* and the loop is awaiting the next line afterwards.
C13_MalformedLineAnswered ==
    \A i \in 1..Len(consumed) :
        consumed[i] \in MalformedLines =>
            /\ i <= Len(written)
            /\ written[i] = ErrorLine(MalformedMessage(consumed[i]))
            /\ i = Len(consumed) => loop = "awaiting"

C13_Witness ==
    /\ Len(written) = 2
    /\ consumed[1] = Line(DocCallNoParams)
    /\ consumed[2] = Line(DocToolsList)
    /\ Head(written[2]) = "{\"tools\": ["
    /\ loop = "awaiting"

ContentPrefix == "{\"content\": [{\"type\": \"text\", \"text\": \""

IsErrorContent(r) == Head(r) = ContentPrefix /\ r[Len(r)] = ", \"isError\": true}"

\* whether the response line r is the answer to the line
Answers(line, r) ==
    LET d == Strip(line)
    IN  IF line \in MalformedLines THEN r = ErrorLine(MalformedMessage(line))
        ELSE IF d = DocToolsList THEN Head(r) = "{\"tools\": ["
        ELSE IF d = DocPing THEN r = <<"{\"error\": \"", "Unknown method: ", "ping", "\"}">>
        ELSE IF d = DocEmptyObject
        THEN r = <<"{\"error\": \"", "Unknown method: ", "None", "\"}">>
        ELSE IF d = DocUnknownTool
        THEN r = <<"{\"error\": \"", "Unknown tool: ", "nope", "\"}">>
        ELSE IF d = DocValidate
        THEN /\ Head(r) = ContentPrefix
             /\ r[2] \in {"File not found: ", "Validation error: ",
                          "## BED File Validation\n\n**File**: "}
        ELSE IF d = DocAnnotate
        THEN /\ Head(r) = ContentPrefix
             /\ r[2] \in {"Annotation completed successfully!\n\nOutput: ",
                          "Annotation failed:\n", "Error: "}
        ELSE FALSE

LinesRead == { i \in 1..Len(consumed) : consumed[i] # EndOfInput }

\* C14: every line read has exactly one response, written before the next
\* line is read and in the order of the lines; while a request waits for its
\* process, running or already exited, nothing else is read or written.
C14_OneResponsePerLineInOrder ==
    /\ Len(written) = Cardinality(LinesRead) - (IF loop = "processing" THEN 1 ELSE 0)
    /\ \A i \in 1..Len(written) : Answers(consumed[i], written[i])
    /\ loop = "processing" =>
          /\ Strip(consumed[Len(consumed)]) = DocAnnotate
          /\ proc \in {"running", "exited"}
          /\ launches = 1

C14_Witness ==
    /\ Len(written) = 2
    /\ consumed[1] = Line(DocAnnotate)
    /\ IsErrorContent(written[1])
    /\ consumed[2] = DocPing
    /\ written[2] = <<"{\"error\": \"", "Unknown method: ", "ping", "\"}">>

\* C15: the loop is closed exactly when the last read met end-of-input;
\* nothing is read after that, closing writes no response, and no line takes
\* the loop anywhere but back to awaiting or to processing; before the loop
\* is entered nothing is read or written.
C15_LoopEndsOnlyAtEndOfInput ==
    /\ loop \in {"off", "awaiting", "processing", "closed"}
    /\ loop = "off" => (consumed = <<>> /\ written = <<>>)
    /\ loop = "closed" <=> (consumed # <<>> /\ consumed[Len(consumed)] = EndOfInput)
    /\ \A i \in 1..(Len(consumed) - 1) : consumed[i] # EndOfInput
    /\ loop = "closed" => Len(written) = Len(consumed) - 1

C15_Witness ==
    /\ loop = "closed"
    /\ Len(consumed) = 3
    /\ consumed[1] = Line(DocNotJson)
    /\ consumed[2] = Line(DocAnnotate)
    /\ IsErrorContent(written[2])

UnitCall(fn) == unit.k = "call" /\ unit.fn = fn

\* the elements of a list of at most three strings, separated by commas
CommaJoined(l) ==
    IF Len(l) = 0 THEN <<>>
    ELSE IF Len(l) = 1 THEN l[1]
    ELSE IF Len(l) = 2 THEN l[1] \o <<",">> \o l[2]
    ELSE l[1] \o <<",">> \o l[2] \o <<",">> \o l[3]

\* C16: _build_command_args returns exactly Rscript, the script path, -i I,
\* -g genome, -o directory, --formats F, then -n name for a non-empty sample
\* name, then --pattern P for a pattern other than *.bed, then --combine when
\* requested, and nothing else.
C16_CommandArgsExact ==
    UnitCall("_build_command_args") =>
        unit.result
          = << <<"Rscript">>, <<"scripts/annotate_genomic_segments.R">>,
               <<"-i">>, (IF unit.input_files.t = "list"
                          THEN CommaJoined(unit.input_files.v)
                          ELSE unit.input_files.v),
               <<"-g">>, unit.genome_build,
               <<"-o">>, unit.output_directory,
               <<"--formats">>, CommaJoined(unit.plot_formats) >>
            \o (IF unit.sample_name.t = "str" /\ unit.sample_name.v # <<>>
                THEN << <<"-n">>, unit.sample_name.v >> ELSE <<>>)
            \o (IF unit.pattern # <<"*.bed">>
                THEN << <<"--pattern">>, unit.pattern >> ELSE <<>>)
            \o (IF unit.combine_analysis THEN << <<"--combine">> >> ELSE <<>>)

C16_Witness ==
    /\ UnitCall("_build_command_args")
    /\ unit.input_files = [t |-> "list", v |-> << <<"a.bed">>, <<"b.bed">> >>]
    /\ unit.sample_name = [t |-> "str", v |-> <<"s1">>]
    /\ unit.pattern = <<"*.txt">>
    /\ unit.combine_analysis
    /\ Len(unit.result) = 15

\* an annotate request that handle_annotate_genomic_regions accepted: its
\* command was built
AnnotateAccepted == AnnotateCall /\ cmd # <<>>

\* the flag followed by the value, at position i of the command
FlagAt(i, flag, value) ==
    i + 1 <= Len(cmd) /\ cmd[i] = flag /\ cmd[i + 1] = value

HasFlag(flag) == \E i \in 1..Len(cmd) : cmd[i] = flag

RequestedInput ==
    IF req.arguments["input_files"].t = "list"
    THEN CommaJoined(req.arguments["input_files"].v)
    ELSE req.arguments["input_files"].v

SampleNameGiven ==
    /\ "sample_name" \in DOMAIN req.arguments
    /\ req.arguments["sample_name"].t = "str"
    /\ req.arguments["sample_name"].v # <<>>

\* C17: the command of an accepted annotate request holds '-i <inputs joined
\* by commas>', '-g <genome build>' and '-o <output directory>' of the request
\* in that order, '--combine' exactly when combine_analysis is true and
\* '-n <name>' exactly when a sample name was given.
C17_CommandCarriesRequest ==
    AnnotateAccepted =>
        /\ \E i, j, k \in 1..Len(cmd) :
              /\ i < j
              /\ j < k
              /\ FlagAt(i, <<"-i">>, RequestedInput)
              /\ FlagAt(j, <<"-g">>, req.arguments["genome_build"])
              /\ FlagAt(k, <<"-o">>, req.arguments["output_directory"])
        /\ HasFlag(<<"--combine">>)
             <=> ("combine_analysis" \in DOMAIN req.arguments
                  /\ req.arguments["combine_analysis"] = TRUE)
        /\ HasFlag(<<"-n">>) <=> SampleNameGiven
        /\ SampleNameGiven =>
              \E i \in 1..Len(cmd) : FlagAt(i, <<"-n">>, req.arguments["sample_name"].v)

C17_Witness ==
    /\ AnnotateAccepted
    /\ pc = "waiting"
    /\ req.arguments["input_files"] = [t |-> "list", v |-> << <<"a.bed">>, <<"b.bed">> >>]
    /\ req.arguments["genome_build"] = <<"mm10">>
    /\ req.arguments["output_directory"] = <<"/out">>
    /\ "combine_analysis" \in DOMAIN req.arguments
    /\ cmd[Len(cmd)] = <<"--combine">>
    /\ cmd[4] = <<"a.bed", ",", "b.bed">>

\* the value the job must hold for an optional field
Supplied(key, default) ==
    IF key \in DOMAIN req.arguments THEN req.arguments[key] ELSE default

\* C18: an accepted annotate request is run with sample name unset (no -n),
\* include_cpg and include_genic true, plot formats png and pdf, combine
\* false and timeout 300 for the fields it omits, and with its own value for
\* every field it supplies.
C18_DefaultsApplied ==
    AnnotateAccepted =>
        /\ job.input_files = req.arguments["input_files"]
        /\ job.genome_build = req.arguments["genome_build"]
        /\ job.output_directory = req.arguments["output_directory"]
        /\ job.sample_name = Supplied("sample_name", [t |-> "none"])
        /\ job.include_cpg = Supplied("include_cpg", TRUE)
        /\ job.include_genic = Supplied("include_genic", TRUE)
        /\ job.plot_formats = Supplied("plot_formats", << <<"png">>, <<"pdf">> >>)
        /\ job.combine_analysis = Supplied("combine_analysis", FALSE)
        /\ job.timeout = Supplied("timeout", 300)
        /\ "sample_name" \notin DOMAIN req.arguments => ~HasFlag(<<"-n">>)
        /\ "combine_analysis" \notin DOMAIN req.arguments => ~HasFlag(<<"--combine">>)
        /\ \E i \in 1..Len(cmd) :
              FlagAt(i, <<"--formats">>,
                     CommaJoined(Supplied("plot_formats", << <<"png">>, <<"pdf">> >>)))
        /\ (McpDone /\ env.ev = "timeout" /\ "timeout" \notin DOMAIN req.arguments) =>
              Contains(resp.v[1].text, <<"R script execution timed out after ", "300">>)

C18_Witness ==
    /\ AnnotateAccepted
    /\ McpDone
    /\ env.ev = "timeout"
    /\ DOMAIN req.arguments
         = {"input_files", "genome_build", "output_directory", "plot_formats",
            "include_cpg"}
    /\ job.timeout = 300
    /\ job.sample_name = [t |-> "none"]
    /\ job.combine_analysis = FALSE
    /\ job.plot_formats = << <<"svg">> >>
    /\ job.include_cpg = FALSE
    /\ job.include_genic = TRUE

ManifestKeys == {"annotation_files", "summary_files", "plot_files", "combined_files"}

\* how often a path occurs in one category of the returned manifest
Occurs(c, rel) ==
    Cardinality({ i \in 1..Len(unit.result[c]) : unit.result[c][i] = rel })

OccursAnywhere(rel) ==
    Occurs("annotation_files", rel) + Occurs("summary_files", rel)
    + Occurs("plot_files", rel) + Occurs("combined_files", rel)

NameHas(f, word) == \E i \in 1..Len(PathName(f.rel)) : PathName(f.rel)[i] = word

IsTsv(f) == Len(PathName(f.rel)) > 1 /\ f.rel[Len(f.rel)] = ".tsv"

IsPlot(f) == Len(PathName(f.rel)) > 1 /\ f.rel[Len(f.rel)] \in {".png", ".pdf", ".svg"}

\* C19: for an existing directory _scan_output_files returns the four
\* categories; every .tsv or plot file of the tree, at any depth, occurs once
\* in exactly one category and every other file in none; a .tsv file named
\* with 'summary' only is a summary file, with 'combined' only a combined
\* file, with both one of the two, with neither an annotation file; a .png,
\* .pdf or .svg file is a plot file; every entry is the relative path of a
\* file of the tree.
C19_ScanPartitionsFiles ==
    (UnitCall("_scan_output_files") /\ unit.output_dir.exists) =>
        /\ DOMAIN unit.result = ManifestKeys
        /\ \A i \in 1..Len(unit.output_dir.files) :
              LET f == unit.output_dir.files[i]
              IN  /\ OccursAnywhere(f.rel) = IF IsTsv(f) \/ IsPlot(f) THEN 1 ELSE 0
                  /\ (IsTsv(f) /\ NameHas(f, "summary") /\ ~NameHas(f, "combined")) =>
                        Occurs("summary_files", f.rel) = 1
                  /\ (IsTsv(f) /\ NameHas(f, "combined") /\ ~NameHas(f, "summary")) =>
                        Occurs("combined_files", f.rel) = 1
                  /\ (IsTsv(f) /\ NameHas(f, "combined") /\ NameHas(f, "summary")) =>
                        Occurs("summary_files", f.rel) + Occurs("combined_files", f.rel) = 1
                  /\ (IsTsv(f) /\ ~NameHas(f, "combined") /\ ~NameHas(f, "summary")) =>
                        Occurs("annotation_files", f.rel) = 1
                  /\ IsPlot(f) => Occurs("plot_files", f.rel) = 1
        /\ \A c \in ManifestKeys : \A j \in 1..Len(unit.result[c]) :
              \E i \in 1..Len(unit.output_dir.files) :
                 unit.output_dir.files[i].rel = unit.result[c][j]

C19_Witness ==
    /\ UnitCall("_scan_output_files")
    /\ unit.output_dir.exists
    /\ Len(unit.output_dir.files) = 2
    /\ unit.output_dir.files[1].rel = <<"summary", "/", "s1", ".tsv">>
    /\ unit.output_dir.files[2].rel = <<"s1", ".tsv", ".gz">>
    /\ unit.result["annotation_files"] = << <<"summary", "/", "s1", ".tsv">> >>
    /\ unit.result["summary_files"] = <<>>

\* C20: a .tsv file whose name contains 'combined' is a combined file, also
\* when the name contains 'summary'; the directory holding
\* sample1_annotated.tsv, sample2_annotated.tsv, sample1_summary.tsv,
\* combined_annotations.tsv and combined_summary.tsv yields 2 annotation
\* files, 1 summary file and 2 combined files.
C20_Claim ==
    (UnitCall("_scan_output_files") /\ unit.output_dir.exists) =>
        /\ \A i \in 1..Len(unit.output_dir.files) :
              LET f == unit.output_dir.files[i]
              IN  (IsTsv(f) /\ NameHas(f, "combined")) =>
                     Occurs("combined_files", f.rel) = 1
        /\ unit.output_dir.files
             = << [rel |-> <<"sample1", "_", "annotated", ".tsv">>,
                   name |-> <<"sample1", "_", "annotated", ".tsv">>, suffix |-> ".tsv"],
                  [rel |-> <<"sample2", "_", "annotated", ".tsv">>,
                   name |-> <<"sample2", "_", "annotated", ".tsv">>, suffix |-> ".tsv"],
                  [rel |-> <<"sample1", "_", "summary", ".tsv">>,
                   name |-> <<"sample1", "_", "summary", ".tsv">>, suffix |-> ".tsv"],
                  [rel |-> <<"combined", "_", "annotations", ".tsv">>,
                   name |-> <<"combined", "_", "annotations", ".tsv">>, suffix |-> ".tsv"],
                  [rel |-> <<"combined", "_", "summary", ".tsv">>,
                   name |-> <<"combined", "_", "summary", ".tsv">>, suffix |-> ".tsv"] >>
           => /\ Len(unit.result["annotation_files"]) = 2
              /\ Len(unit.result["summary_files"]) = 1
              /\ Len(unit.result["combined_files"]) = 2
\* C21: _scan_output_files on a directory that does not exist returns the
\* manifest of an empty directory: the four categories, each of them empty.
C21_Claim ==
    (UnitCall("_scan_output_files") /\ ~unit.output_dir.exists) =>
        /\ DOMAIN unit.result = ManifestKeys
        /\ \A c \in ManifestKeys : unit.result[c] = <<>>
        /\ unit.result = _scan_output_files([exists |-> TRUE, files |-> <<>>])

\* the names the registry holds
RegisteredNames == { tools[i].name : i \in 1..Len(tools) }

\* C22: whatever was registered, tools/list returns one descriptor for every
\* registered name, carrying that name, and nothing else; a tools/call is
\* dispatched to a handler exactly when its name is registered, and answered
\* 'Unknown tool: <name>' exactly when it is not.
C22_Claim ==
    SimpleDone =>
        /\ ("method" \in DOMAIN req.request /\ req.request["method"] = <<"tools/list">>) =>
              /\ resp.k = "return"
              /\ \A name \in RegisteredNames :
                    Cardinality({ i \in 1..Len(resp.v.tools) : resp.v.tools[i].name = name }) = 1
              /\ \A i \in 1..Len(resp.v.tools) : resp.v.tools[i].name \in RegisteredNames
        /\ (SimpleNamedCall /\ SimpleHasArguments) =>
              /\ resp.k = "return"
              /\ SimpleCallName \in RegisteredNames <=> "error" \notin DOMAIN resp.v
              /\ SimpleCallName \notin RegisteredNames =>
                    resp.v = [error |-> <<"Unknown tool: ">> \o SimpleCallName]

\* C23: handle_annotate_genomic_regions called with the three required
\* arguments returns a list of exactly one text item and never raises,
\* whatever the optional arguments and whether or not r_runner is set.
C23_Claim ==
    (UnitCall("handle_annotate_genomic_regions")
     /\ {"input_files", "genome_build", "output_directory"} \subseteq DOMAIN unit.arguments) =>
        /\ unit.result.k = "return"
        /\ Len(unit.result.v) = 1
        /\ unit.result.v[1].type = "text"

\* the plot formats or the timeout of the request break the constraints
InvalidJobRequest ==
    /\ AnnotateCall
    /\ \/ /\ "plot_formats" \in DOMAIN req.arguments
          /\ \/ req.arguments["plot_formats"] = <<>>
             \/ \E i \in 1..Len(req.arguments["plot_formats"]) :
                   req.arguments["plot_formats"][i] \notin { <<"png">>, <<"pdf">>, <<"svg">> }
       \/ /\ "timeout" \in DOMAIN req.arguments
          /\ req.arguments["timeout"] <= 0

\* C24: a job that run_annotation launches has at least one plot format, all
\* of them among png, pdf and svg, and a timeout above 0; a request with no
\* plot format, an unknown one, or a timeout that is not positive launches no
\* process.
C24_Claim ==
    /\ (req.server = "mcp" /\ launches > 0) =>
          /\ job.plot_formats # <<>>
          /\ \A i \in 1..Len(job.plot_formats) :
                job.plot_formats[i] \in { <<"png">>, <<"pdf">>, <<"svg">> }
          /\ job.timeout > 0
    /\ InvalidJobRequest =>
          /\ launches = 0
          /\ proc = "none"
          /\ cmd = <<>>

\* what one step does to the call of task i
OwnStep(i) ==
    /\ \A j \in JobIds \ {i} : jobs'[j] = jobs[j]
    /\ (jobs[i].pc = "done" /\ jobs'[i].pc = "done") =>
          /\ jobs[i].proc = "running"
          /\ jobs'[i] = [jobs[i] EXCEPT !.proc = "exited"]
    /\ (jobs[i].pc = "waiting" /\ jobs'[i].pc = "waiting") =>
          /\ jobs[i].proc = "running"
          /\ jobs'[i].proc = "exited"
          /\ jobs'[i].job = jobs[i].job
          /\ jobs'[i].resp = jobs[i].resp
    /\ (jobs[i].pc # "done" /\ jobs'[i].pc = "done") =>
          IF jobs'[i].env.ev = "timeout"
          THEN /\ jobs[i].pc = "waiting"
               /\ jobs'[i].job = jobs[i].job
               /\ jobs'[i].proc = jobs[i].proc
               /\ jobs'[i].runres
                    = [k |-> "raise",
                       exc |-> [type |-> "RScriptError",
                                msg |-> <<"R script execution timed out after ",
                                          ToString(jobs[i].job.timeout), " seconds">>]]
          ELSE IF jobs'[i].env.ev = "exit"
          THEN /\ jobs[i].pc = "waiting"
               /\ jobs[i].proc = "exited"
               /\ jobs'[i].job = jobs[i].job
               /\ jobs'[i].env = jobs[i].env
               /\ jobs[i].job.timeout > 0
               /\ jobs'[i].runres.k = "return" <=> jobs'[i].env.returncode = 0
               /\ jobs'[i].env.returncode # 0 =>
                     Contains(jobs'[i].runres.exc.msg,
                              <<"R script failed with return code ",
                                ToString(jobs'[i].env.returncode)>>)
          ELSE jobs[i].pc = "idle"

\* C25: every step of the concurrent calls changes the locals of one call
\* only; a call ends as timed out exactly by its own timeout, with its own
\* number of seconds in the failure, and as exited by the exit status of its
\* own process (a result for 0, a failure naming the status otherwise); the
\* other calls, waiting or done, keep their process, job and outcome.
C25_JobsIsolated ==
    [][\A i \in JobIds : jobs'[i] # jobs[i] => OwnStep(i)]_vars

C25_Witness ==
    /\ jobs[1].pc = "done"
    /\ jobs[1].env.ev = "timeout"
    /\ jobs[1].job.timeout = 1
    /\ jobs[2].pc = "waiting"
    /\ jobs[2].proc = "running"
    /\ jobs[2].job.timeout = 300

\* C26: when the process of an annotate request exits with status 0 (its
\* streams decodable) and the output directory does not exist, the response
\* is the success text reporting 0 annotation, summary, plot and combined
\* files, not an error text.
C26_Claim ==
    (/\ McpDone
     /\ AnnotateCall
     /\ env.ev = "exit"
     /\ env.returncode = 0
     /\ Decode(env.out).k = "return"
     /\ Decode(env.err).k = "return"
     /\ ~env.tree.exists) =>
        /\ OneText
        /\ Head(resp.v[1].text) = "Genomic annotation completed successfully!\n\n**Input**: "
        /\ Contains(resp.v[1].text,
                    <<"\n\n**Generated Files**:\n- Annotation files: ", "0",
                      "\n- Summary files: ", "0", "\n- Plot files: ", "0",
                      "\n- Combined files: ", "0">>)
        /\ ~Contains(resp.v[1].text, <<"Error executing ">>)

SimpleMethod == IF "method" \in DOMAIN req.request THEN req.request["method"] ELSE <<"None">>

\* the texts with which the handlers of the simple server report a failure
FailureHeads ==
    { "Annotation failed:\n", "Error: ", "File not found: ", "Validation error: " }

\* the answer of handle_request once the request is done
SimpleAnswered ==
    SimpleDone =>
        /\ SimpleMethod \notin { <<"tools/list">>, <<"tools/call">> } =>
              /\ resp = [k |-> "return", v |-> [error |-> <<"Unknown method: ">> \o SimpleMethod]]
              /\ launches = 0
              /\ proc = "none"
              /\ cmd = <<>>
        /\ (resp.k = "return" /\ "content" \in DOMAIN resp.v) =>
              /\ Len(resp.v.content) = 1
              /\ resp.v.content[1].type = "text"
              /\ "error" \notin DOMAIN resp.v
              /\ "isError" \in DOMAIN resp.v <=> Head(resp.v.content[1].text) \in FailureHeads
              /\ "isError" \in DOMAIN resp.v => resp.v.isError = TRUE
        /\ env.ev = "launchfail" =>
              /\ resp.k = "return"
              /\ "isError" \in DOMAIN resp.v
              /\ Head(resp.v.content[1].text) = "Error: "
        /\ (env.ev = "exit" /\ env.returncode # 0) =>
              /\ resp.k = "return"
              /\ "isError" \in DOMAIN resp.v
        /\ (env.ev = "exit" /\ env.returncode = 0 /\ Decode(env.out).k = "return") =>
              /\ resp.k = "return"
              /\ "content" \in DOMAIN resp.v
              /\ "isError" \notin DOMAIN resp.v

\* C27: handle_request answers a method that is neither tools/list nor
\* tools/call, or no method, with {error: 'Unknown method: <method>'} and
\* launches nothing; a handler's failure (non-zero exit, failed launch,
\* missing or unreadable file) is answered {content: [one text], isError:
\* true} and a success {content: [one text]} without isError; no step of
\* handle_request changes the registry.
C27_ProtocolAndToolErrors ==
    [][/\ SimpleAnswered'
       /\ (req'.server = "simple" /\ pc' # "idle") => tools' = tools]_vars

C27_Witness ==
    /\ SimpleDone
    /\ "method" \notin DOMAIN req.request
    /\ resp.v = [error |-> <<"Unknown method: ", "None">>]
    /\ Len(tools) = 2
    /\ launches = 0

\* C28: the process of a run is launched in a directory that is the same
\* whatever the current directory of the server, and a relative output
\* directory is the same directory for the process and for the scan of the
\* results, where the run comes to scan them.
C28_Claim ==
    UnitCall("run_annotation") =>
        /\ \A c \in ServerCwds :
              Resolve(c, LaunchCwd(unit.script_path)) = unit.process_cwd
        /\ (unit.scanned /\ ~unit.output_directory.abs) =>
              unit.process_output = unit.scan_output

\* C29: the command of an accepted annotate request is the command of the
\* same request with any other values of include_cpg and include_genic, and
\* holds nothing besides the ten leading elements, -n <name> and --combine.
C29_FeatureFlagsNotInCommand ==
    AnnotateAccepted =>
        /\ \A cpg \in BOOLEAN, genic \in BOOLEAN :
              cmd = JobCommand([job EXCEPT !.include_cpg = cpg, !.include_genic = genic])
        /\ Len(cmd) = 10 + (IF HasFlag(<<"-n">>) THEN 2 ELSE 0)
                         + (IF HasFlag(<<"--combine">>) THEN 1 ELSE 0)

C29_Witness ==
    /\ AnnotateAccepted
    /\ pc = "waiting"
    /\ "include_cpg" \in DOMAIN req.arguments
    /\ "include_genic" \in DOMAIN req.arguments
    /\ job.include_cpg = FALSE
    /\ job.include_genic = FALSE
    /\ cmd = << <<"Rscript">>, <<"scripts/annotate_genomic_segments.R">>,
                <<"-i">>, <<"a.bed">>, <<"-g">>, <<"hg38">>, <<"-o">>, <<"/out">>,
                <<"--formats">>, <<"png", ",", "pdf">> >>

\* C30: for every results directory the Summary, Annotation and Plot counts
\* in the text of get_annotation_summary are the sizes of the summary_files,
\* annotation_files and plot_files lists _scan_output_files gives for it.
C30_Claim ==
    (unit # Nothing /\ unit.fn = "handle_get_annotation_summary" /\ unit.output_dir.exists)
        => LET scan == _scan_output_files(unit.output_dir)
           IN  /\ unit.result.k = "return"
               /\ Contains(unit.result.v[1].text,
                           <<"\n\n**Files Found**:\n- Summary files: ">>
                           \o IntStr(Len(scan.summary_files))
                           \o <<"\n- Annotation files: ">>
                           \o IntStr(Len(scan.annotation_files))
                           \o <<"\n- Plot files: ">>
                           \o IntStr(Len(scan.plot_files)))

====
